---- MODULE Spec2Model ----
(***************************************************************************)
(* Board abstraction dispatch layer of esp-idf-component-SDL_bsp.          *)
(*                                                                         *)
(* The Dispatcher (esp_bsp_sdl_common.c) keeps one cell, s_current_board,  *)
(* and forwards every public call to the Board Implementation selected by  *)
(* the build-time markers.  Each Board Implementation keeps its own        *)
(* statics (s_panel_handle, s_panel_io_handle, s_touch_handle) and calls   *)
(* the vendor BSP, whose return codes and data are inputs of the model.    *)
(***************************************************************************)
EXTENDS Integers, Sequences, FiniteSets, TLC

VARIABLES
    build,            \* build-time configuration (Kconfig / BSP header macros)
    s_current_board,  \* the Dispatcher's active-board cell
    s_panel_handle,   \* selected board file: static panel handle
    s_panel_io_handle,\* selected board file: static panel-IO handle
    s_touch_handle,   \* selected board file: static touch handle
    lifecycle,        \* history: the last lifecycle call made by the caller
    sessionName,      \* history: the name get_board_name returned first in this session
    trip,             \* history (BoardSpec): progress of an init / deinit / init round trip
    touchHist,        \* history (BoardSpec): whether and when a touch_init returned ESP_OK
    last,             \* history: the last public call, its inputs, result and effects
    callers           \* ConcSpec: where each unsynchronised caller stands inside a
                      \* Dispatcher operation, and the last call made through NULL

vars == <<build, s_current_board, s_panel_handle, s_panel_io_handle,
          s_touch_handle, lifecycle, sessionName, trip, touchHist, last, callers>>

-----------------------------------------------------------------------------
(* Bounds of the model *)

\* number of distinct handle values the vendor BSP may hand out
MaxHandle == 2
\* at most this many board markers are set in one build
MaxMarkers == 2

-----------------------------------------------------------------------------
(* Values *)

NULL == 0

ESP_OK == "ESP_OK"
ESP_FAIL == "ESP_FAIL"
ESP_ERR_INVALID_ARG == "ESP_ERR_INVALID_ARG"
ESP_ERR_INVALID_STATE == "ESP_ERR_INVALID_STATE"
ESP_ERR_NOT_SUPPORTED == "ESP_ERR_NOT_SUPPORTED"

SDL_PIXELFORMAT_RGB565 == "RGB565"
SDL_PIXELFORMAT_RGB888 == "RGB888"

M5_ATOM_S3 == "M5_ATOM_S3"
ESP_BOX_3 == "ESP_BOX_3"
M5STACK_CORE_S3 == "M5STACK_CORE_S3"
ESP32_P4_FUNCTION_EV == "ESP32_P4_FUNCTION_EV"
ESP32_S3_LCD_EV_BOARD == "ESP32_S3_LCD_EV_BOARD"
M5STACK_TAB5 == "M5STACK_TAB5"

\* board files that are linked directly, without an interface table
ESP_BOX_3_STANDALONE == "ESP_BOX_3_STANDALONE"
ESP_BSP_GENERIC == "ESP_BSP_GENERIC"
ESP_BSP_DEVKIT == "ESP_BSP_DEVKIT"

\* the boards the Dispatcher declares an interface table for
Boards == {M5_ATOM_S3, ESP_BOX_3, M5STACK_CORE_S3, ESP32_P4_FUNCTION_EV,
           ESP32_S3_LCD_EV_BOARD, M5STACK_TAB5}

\* value of the cell when no board is selected (a NULL interface pointer)
NoBoard == "NULL"

\* the board files that define esp_bsp_sdl_board_* themselves
StandaloneBoards == {ESP_BOX_3_STANDALONE, ESP_BSP_GENERIC, ESP_BSP_DEVKIT}

\* handle values: panel handles 1..MaxHandle, the IO handle created with
\* panel h is 10+h, touch handles are 21..20+MaxHandle
PanelHandles == 1..MaxHandle
IoOf(h) == IF h = NULL THEN NULL ELSE 10 + h
TouchHandles == {20 + i : i \in 1..MaxHandle}

\* the three output slots of init; a call may pass NULL for any of them
InitSlots == {"config", "panel_handle", "panel_io_handle"}

\* descriptor contents of a caller variable nobody wrote yet
CfgUnset == [width |-> 0, height |-> 0, pixel_format |-> "UNSET",
             max_transfer_sz |-> 0, has_touch |-> FALSE]

Cfg(w, h, fmt, sz, touch) ==
    [width |-> w, height |-> h, pixel_format |-> fmt,
     max_transfer_sz |-> sz, has_touch |-> touch]

\* touch sample contents
Sample(p, x, y) == [pressed |-> p, x |-> x, y |-> y]

\* what a caller's touch_info struct may hold before a call
PreSamples == {Sample(FALSE, 0, 0), Sample(TRUE, 7, 9)}

\* raw coordinates the touch controller may report (uint16_t)
RawPoints == {<<0, 0>>, <<1, 5>>, <<719, 1279>>}

-----------------------------------------------------------------------------
(* Build-time selection *)

\* mutant: a fallback board is selected when no marker is set
detect_board_fallback(markers) ==
    IF M5_ATOM_S3 \in markers THEN M5_ATOM_S3
    ELSE IF ESP_BOX_3 \in markers THEN ESP_BOX_3
    ELSE IF M5STACK_CORE_S3 \in markers THEN M5STACK_CORE_S3
    ELSE IF ESP32_P4_FUNCTION_EV \in markers THEN ESP32_P4_FUNCTION_EV
    ELSE IF ESP32_S3_LCD_EV_BOARD \in markers THEN ESP32_S3_LCD_EV_BOARD
    ELSE M5STACK_TAB5

\* mutant: the chain tests the markers in the opposite order
detect_board_reversed(markers) ==
    IF M5STACK_TAB5 \in markers THEN M5STACK_TAB5
    ELSE IF ESP32_S3_LCD_EV_BOARD \in markers THEN ESP32_S3_LCD_EV_BOARD
    ELSE IF ESP32_P4_FUNCTION_EV \in markers THEN ESP32_P4_FUNCTION_EV
    ELSE IF M5STACK_CORE_S3 \in markers THEN M5STACK_CORE_S3
    ELSE IF ESP_BOX_3 \in markers THEN ESP_BOX_3
    ELSE IF M5_ATOM_S3 \in markers THEN M5_ATOM_S3
    ELSE NoBoard

\* detect_board(): the #ifdef / #elif chain over the board markers
detect_board(markers) ==
    IF M5_ATOM_S3 \in markers THEN M5_ATOM_S3
    ELSE IF ESP_BOX_3 \in markers THEN ESP_BOX_3
    ELSE IF M5STACK_CORE_S3 \in markers THEN M5STACK_CORE_S3
    ELSE IF ESP32_P4_FUNCTION_EV \in markers THEN ESP32_P4_FUNCTION_EV
    ELSE IF ESP32_S3_LCD_EV_BOARD \in markers THEN ESP32_S3_LCD_EV_BOARD
    ELSE IF M5STACK_TAB5 \in markers THEN M5STACK_TAB5
    ELSE NoBoard

\* boards whose file reads CONFIG_SDL_BSP_TOUCH_ENABLE
ReadsTouchEnable == {ESP32_P4_FUNCTION_EV, ESP32_S3_LCD_EV_BOARD, M5STACK_TAB5}
\* boards whose file takes BSP_CAPS_TOUCH from the vendor BSP header
ReadsCapsTouch == {M5STACK_CORE_S3, ESP32_P4_FUNCTION_EV, ESP32_S3_LCD_EV_BOARD,
                   M5STACK_TAB5}

\* The build configurations.  A macro the selected board file never reads is
\* fixed (to FALSE), since it cannot change any behaviour of that build; builds
\* with more than one marker are taken with every other option at FALSE.
BuildConfigs ==
    { c \in [markers : {s \in SUBSET Boards : Cardinality(s) <= MaxMarkers},
             touchEnable : BOOLEAN,      \* CONFIG_SDL_BSP_TOUCH_ENABLE
             capsTouch : BOOLEAN,        \* BSP_CAPS_TOUCH == 1 in the vendor header
             lcd1024 : BOOLEAN,          \* CONFIG_BSP_LCD_TYPE_1024_600
             rgb888 : BOOLEAN,           \* CONFIG_BSP_LCD_RGB888
             standalone : {NoBoard},     \* no directly linked board file
             genDisplay : {FALSE}, genTouch : {FALSE}, genRes : {<<0, 0>>},
             devkit : {{}}] :
        LET b == detect_board(c.markers) IN
        /\ (c.touchEnable => b \in ReadsTouchEnable)
        /\ (c.capsTouch => b \in ReadsCapsTouch)
        /\ (c.lcd1024 => b = ESP32_P4_FUNCTION_EV)
        /\ (c.rgb888 => b = ESP32_P4_FUNCTION_EV)
        /\ (Cardinality(c.markers) > 1 =>
                ~c.touchEnable /\ ~c.capsTouch /\ ~c.lcd1024 /\ ~c.rgb888) }

\* display sizes a Generic build may configure
\* (CONFIG_BSP_GENERIC_DISPLAY_WIDTH x CONFIG_BSP_GENERIC_DISPLAY_HEIGHT)
GenericSizes == {<<240, 320>>, <<480, 320>>}

\* optional parts of the DevKit file: CONFIG_BSP_DEVKIT_LED_ENABLED,
\* CONFIG_BSP_DEVKIT_BUTTON_ENABLED, CONFIG_BSP_DEVKIT_SPIFFS_ENABLED
DevKitFeatures == {"LED", "BUTTON", "SPIFFS"}

\* Builds of a board file that is linked directly.  The old ESP-Box-3 file
\* reads BSP_CAPS_TOUCH from the vendor header; the Generic file reads
\* CONFIG_BSP_GENERIC_DISPLAY_ENABLED, CONFIG_BSP_GENERIC_TOUCH_ENABLED and the
\* configured size.  A Generic build with the display enabled uses the touch
\* macro as a value, so it compiles only when that macro is defined.
StandaloneBuilds ==
    { c \in [markers : {{}}, touchEnable : {FALSE}, capsTouch : BOOLEAN,
             lcd1024 : {FALSE}, rgb888 : {FALSE},
             standalone : StandaloneBoards,
             genDisplay : BOOLEAN, genTouch : BOOLEAN,
             genRes : GenericSizes \cup {<<0, 0>>},
             devkit : SUBSET DevKitFeatures] :
        /\ (c.capsTouch => c.standalone = ESP_BOX_3_STANDALONE)
        /\ (c.devkit # {} => c.standalone = ESP_BSP_DEVKIT)
        /\ (c.genDisplay \/ c.genTouch => c.standalone = ESP_BSP_GENERIC)
        /\ (c.genDisplay => c.genTouch)
        /\ (c.genRes # <<0, 0>>) = c.genDisplay }

\* the board file a build compiles
BoardOf(c) ==
    IF c.standalone # NoBoard THEN c.standalone ELSE detect_board(c.markers)

-----------------------------------------------------------------------------
(* Memory a handler works on, and vendor BSP calls *)

\* m: the selected board's statics, the caller's output variables, and the
\* record of what this handler did (vendor calls made, caller variables written)
Mem(panel, io, touch, cfg, outp, outio, ti) ==
    [panel |-> panel, io |-> io, touch |-> touch,
     cfg |-> cfg, out_panel |-> outp, out_io |-> outio, ti |-> ti,
     vendor |-> <<>>, writes |-> {}]

R(ret, m) == [ret |-> ret, m |-> m]

\* a vendor call fn(arg) is made
Call(m, fn, arg) == [m EXCEPT !.vendor = Append(@, [fn |-> fn, arg |-> arg])]

\* *config = ...
SetCfg(m, c) == [m EXCEPT !.cfg = c, !.writes = @ \cup {"config"}]

\* mutant: the panel slot receives the panel-IO handle
ReturnHandles_io_twice(m, p, io) ==
    [m EXCEPT !.out_panel = io, !.out_io = io,
              !.writes = @ \cup {"panel_handle", "panel_io_handle"}]

\* *panel_handle = p; *panel_io_handle = io;
ReturnHandles(m, p, io) ==
    [m EXCEPT !.out_panel = p, !.out_io = io,
              !.writes = @ \cup {"panel_handle", "panel_io_handle"}]

\* touch_info->pressed = p; touch_info->x = x; touch_info->y = y;
SetSample(m, p, x, y) ==
    [m EXCEPT !.ti = Sample(p, x, y), !.writes = @ \cup {"touch_info"}]

\* bsp_display_new(&cfg, &s_panel_handle, &s_panel_io_handle): on success the
\* vendor stores the new panel and IO handles through the two pointers
bsp_display_new(m, in) ==
    LET m1 == Call(m, "bsp_display_new", NULL) IN
    IF in.rets["bsp_display_new"] = ESP_OK
    THEN [m1 EXCEPT !.panel = in.h, !.io = IoOf(in.h)]
    ELSE m1

\* bsp_touch_new(&cfg, &s_touch_handle): on success the vendor stores the new
\* touch handle through the pointer
bsp_touch_new(m, in) ==
    LET m1 == Call(m, "bsp_touch_new", NULL) IN
    IF in.rets["bsp_touch_new"] = ESP_OK
    THEN [m1 EXCEPT !.touch = in.th]
    ELSE m1

sizeof_uint16_t == 2

-----------------------------------------------------------------------------
(* Board Implementation: M5 Atom S3 (esp_bsp_sdl_m5_atom_s3.c) *)

BSP_CAPS_TOUCH_m5_atom_s3 == 0

\* a: the set of init slots the caller passed as NULL; in: vendor inputs
\* mutant: a failure of the display enable is logged and init carries on
m5_atom_s3_init_enable_not_fatal(m, a, in) ==
    IF a # {} THEN R(ESP_ERR_INVALID_ARG, m)
    ELSE
    LET m1 == SetCfg(m, Cfg(128, 128, SDL_PIXELFORMAT_RGB565,
                            (128 * 128) * sizeof_uint16_t,
                            BSP_CAPS_TOUCH_m5_atom_s3 = 1))
        m2 == Call(m1, "bsp_display_brightness_init", NULL)
        m3 == bsp_display_new(m2, in)
        m4 == Call(m3, "esp_lcd_panel_disp_on_off", m3.panel)
        m5 == Call(m4, "bsp_display_backlight_on", NULL)
    IN  IF in.rets["bsp_display_brightness_init"] # ESP_OK
        THEN R(in.rets["bsp_display_brightness_init"], m2)
        ELSE IF in.rets["bsp_display_new"] # ESP_OK
        THEN R(in.rets["bsp_display_new"], m3)
        ELSE IF in.rets["bsp_display_backlight_on"] # ESP_OK
        THEN R(in.rets["bsp_display_backlight_on"], m5)
        ELSE R(ESP_OK, ReturnHandles(m5, m5.panel, m5.io))

m5_atom_s3_init(m, a, in) ==
    IF a # {} THEN R(ESP_ERR_INVALID_ARG, m)
    ELSE
    LET m1 == SetCfg(m, Cfg(128, 128, SDL_PIXELFORMAT_RGB565,
                            (128 * 128) * sizeof_uint16_t,
                            BSP_CAPS_TOUCH_m5_atom_s3 = 1))
        m2 == Call(m1, "bsp_display_brightness_init", NULL)
        m3 == bsp_display_new(m2, in)
        m4 == Call(m3, "esp_lcd_panel_disp_on_off", m3.panel)
        m5 == Call(m4, "bsp_display_backlight_on", NULL)
    IN  IF in.rets["bsp_display_brightness_init"] # ESP_OK
        THEN R(in.rets["bsp_display_brightness_init"], m2)
        ELSE IF in.rets["bsp_display_new"] # ESP_OK
        THEN R(in.rets["bsp_display_new"], m3)
        ELSE IF in.rets["esp_lcd_panel_disp_on_off"] # ESP_OK
        THEN R(in.rets["esp_lcd_panel_disp_on_off"], m4)
        ELSE IF in.rets["bsp_display_backlight_on"] # ESP_OK
        THEN R(in.rets["bsp_display_backlight_on"], m5)
        ELSE R(ESP_OK, ReturnHandles(m5, m5.panel, m5.io))

-----------------------------------------------------------------------------
(* Board Implementation: ESP-Box-3 (interface esp_bsp_sdl_esp_box_3_interface) *)

BSP_CAPS_TOUCH_esp_box_3 == 0

\* mutant: the transfer size counts pixels, not bytes
esp_box_3_init_counts_pixels(m, a, in) ==
    IF a # {} THEN R(ESP_ERR_INVALID_ARG, m)
    ELSE
    LET m1 == SetCfg(m, Cfg(320, 240, SDL_PIXELFORMAT_RGB565, 320 * 240,
                            BSP_CAPS_TOUCH_esp_box_3 = 1))
        m2 == bsp_display_new(m1, in)
    IN  IF in.rets["bsp_display_new"] # ESP_OK
        THEN R(in.rets["bsp_display_new"], m2)
        ELSE R(ESP_OK, ReturnHandles(m2, m2.panel, m2.io))

esp_box_3_init(m, a, in) ==
    IF a # {} THEN R(ESP_ERR_INVALID_ARG, m)
    ELSE
    LET m1 == SetCfg(m, Cfg(320, 240, SDL_PIXELFORMAT_RGB565,
                            (320 * 240) * sizeof_uint16_t,
                            BSP_CAPS_TOUCH_esp_box_3 = 1))
        m2 == bsp_display_new(m1, in)
    IN  IF in.rets["bsp_display_new"] # ESP_OK
        THEN R(in.rets["bsp_display_new"], m2)
        ELSE R(ESP_OK, ReturnHandles(m2, m2.panel, m2.io))

-----------------------------------------------------------------------------
(* Board Implementation: M5Stack CoreS3 (esp_bsp_sdl_m5stack_core_s3.c) *)

\* BSP_LCD_H_RES / BSP_LCD_V_RES of the CoreS3 BSP (320x240 panel)
BSP_LCD_H_RES == 320
BSP_LCD_V_RES == 240

\* mutant: a failure of the final backlight-on fails init, as on the Atom S3
m5stack_core_s3_board_init_backlight_fatal(m, a, in) ==
    IF a # {} THEN R(ESP_ERR_INVALID_ARG, m)
    ELSE
    LET m1 == Call(m, "bsp_i2c_init", NULL)
        m2 == Call(m1, "bsp_display_brightness_init", NULL)
        m3 == SetCfg(m2, Cfg(BSP_LCD_H_RES, BSP_LCD_V_RES, SDL_PIXELFORMAT_RGB565,
                             (BSP_LCD_H_RES * BSP_LCD_V_RES) * sizeof_uint16_t,
                             build.capsTouch))
        m4 == bsp_display_new(m3, in)
        m5 == Call(m4, "esp_lcd_panel_disp_on_off", m4.panel)
        m6 == Call(m5, "bsp_display_backlight_on", NULL)
    IN  IF in.rets["bsp_i2c_init"] # ESP_OK
        THEN R(in.rets["bsp_i2c_init"], m1)
        ELSE IF in.rets["bsp_display_brightness_init"] # ESP_OK
        THEN R(in.rets["bsp_display_brightness_init"], m2)
        ELSE IF in.rets["bsp_display_new"] # ESP_OK
        THEN R(in.rets["bsp_display_new"], m4)
        ELSE IF in.rets["esp_lcd_panel_disp_on_off"] # ESP_OK
        THEN R(in.rets["esp_lcd_panel_disp_on_off"], m5)
        ELSE IF in.rets["bsp_display_backlight_on"] # ESP_OK
        THEN R(in.rets["bsp_display_backlight_on"], m6)
        ELSE R(ESP_OK, ReturnHandles(m6, m6.panel, m6.io))

m5stack_core_s3_board_init(m, a, in) ==
    IF a # {} THEN R(ESP_ERR_INVALID_ARG, m)
    ELSE
    LET m1 == Call(m, "bsp_i2c_init", NULL)
        m2 == Call(m1, "bsp_display_brightness_init", NULL)
        m3 == SetCfg(m2, Cfg(BSP_LCD_H_RES, BSP_LCD_V_RES, SDL_PIXELFORMAT_RGB565,
                             (BSP_LCD_H_RES * BSP_LCD_V_RES) * sizeof_uint16_t,
                             build.capsTouch))
        m4 == bsp_display_new(m3, in)
        m5 == Call(m4, "esp_lcd_panel_disp_on_off", m4.panel)
        \* a failure of the final backlight-on is logged and ignored
        m6 == Call(m5, "bsp_display_backlight_on", NULL)
    IN  IF in.rets["bsp_i2c_init"] # ESP_OK
        THEN R(in.rets["bsp_i2c_init"], m1)
        ELSE IF in.rets["bsp_display_brightness_init"] # ESP_OK
        THEN R(in.rets["bsp_display_brightness_init"], m2)
        ELSE IF in.rets["bsp_display_new"] # ESP_OK
        THEN R(in.rets["bsp_display_new"], m4)
        ELSE IF in.rets["esp_lcd_panel_disp_on_off"] # ESP_OK
        THEN R(in.rets["esp_lcd_panel_disp_on_off"], m5)
        ELSE R(ESP_OK, ReturnHandles(m6, m6.panel, m6.io))

-----------------------------------------------------------------------------
(* Board Implementation: ESP32-P4 Function EV Board *)

\* Step 4 of the P4 and Tab5 init: backlight init, then backlight on; neither
\* failure fails the init
BacklightPreArm(m, in) ==
    LET m1 == Call(m, "bsp_display_brightness_init", NULL) IN
    IF in.rets["bsp_display_brightness_init"] = ESP_OK
    THEN Call(m1, "bsp_display_backlight_on", NULL)
    ELSE m1

esp32_p4_function_ev_init(m, a, in) ==
    IF a # {} THEN R(ESP_ERR_INVALID_ARG, m)
    ELSE
    LET w == IF build.lcd1024 THEN 1024 ELSE 1280
        h == IF build.lcd1024 THEN 600 ELSE 800
        m1 == SetCfg(m, Cfg(w, h,
                            IF build.rgb888 THEN SDL_PIXELFORMAT_RGB888
                                            ELSE SDL_PIXELFORMAT_RGB565,
                            IF build.rgb888 THEN (w * h) * 3 ELSE (w * h) * 2,
                            IF build.touchEnable THEN build.capsTouch ELSE FALSE))
        m2 == bsp_display_new(m1, in)
        m3 == BacklightPreArm(m2, in)
    IN  IF in.rets["bsp_display_new"] # ESP_OK
        THEN R(in.rets["bsp_display_new"], m2)
        ELSE R(ESP_OK, ReturnHandles(m3, m3.panel, m3.io))

-----------------------------------------------------------------------------
(* Board Implementation: ESP32-S3-LCD-EV-Board *)

BSP_LCD_SUB_BOARD_3_H_RES == 800
BSP_LCD_SUB_BOARD_3_V_RES == 480

\* mutant: the size of sub-board 3 is reported whatever the vendor BSP found
esp32_s3_lcd_ev_board_init_fixed_size(m, a, in) ==
    IF a # {} THEN R(ESP_ERR_INVALID_ARG, m)
    ELSE
    LET h_res == BSP_LCD_SUB_BOARD_3_H_RES
        v_res == BSP_LCD_SUB_BOARD_3_V_RES
        m0 == Call(Call(m, "bsp_display_get_h_res", NULL), "bsp_display_get_v_res", NULL)
        m1 == SetCfg(m0, Cfg(h_res, v_res, SDL_PIXELFORMAT_RGB565,
                             (h_res * v_res) * sizeof_uint16_t,
                             IF build.touchEnable THEN build.capsTouch ELSE FALSE))
        m2 == bsp_display_new(m1, in)
        m3 == Call(m2, "esp_lcd_panel_disp_on_off", m2.panel)
    IN  IF in.rets["bsp_display_new"] # ESP_OK
        THEN R(in.rets["bsp_display_new"], m2)
        ELSE IF in.rets["esp_lcd_panel_disp_on_off"] # ESP_OK
        THEN R(in.rets["esp_lcd_panel_disp_on_off"], m3)
        ELSE R(ESP_OK, ReturnHandles(m3, m3.panel, m3.io))

\* in.res: what bsp_display_get_h_res() / bsp_display_get_v_res() return
esp32_s3_lcd_ev_board_init(m, a, in) ==
    IF a # {} THEN R(ESP_ERR_INVALID_ARG, m)
    ELSE
    LET undetermined == in.res[1] = 0 \/ in.res[2] = 0
        h_res == IF undetermined THEN BSP_LCD_SUB_BOARD_3_H_RES ELSE in.res[1]
        v_res == IF undetermined THEN BSP_LCD_SUB_BOARD_3_V_RES ELSE in.res[2]
        m0 == Call(Call(m, "bsp_display_get_h_res", NULL), "bsp_display_get_v_res", NULL)
        m1 == SetCfg(m0, Cfg(h_res, v_res, SDL_PIXELFORMAT_RGB565,
                             (h_res * v_res) * sizeof_uint16_t,
                             IF build.touchEnable THEN build.capsTouch ELSE FALSE))
        m2 == bsp_display_new(m1, in)
        m3 == Call(m2, "esp_lcd_panel_disp_on_off", m2.panel)
    IN  IF in.rets["bsp_display_new"] # ESP_OK
        THEN R(in.rets["bsp_display_new"], m2)
        ELSE IF in.rets["esp_lcd_panel_disp_on_off"] # ESP_OK
        THEN R(in.rets["esp_lcd_panel_disp_on_off"], m3)
        ELSE R(ESP_OK, ReturnHandles(m3, m3.panel, m3.io))

-----------------------------------------------------------------------------
(* Board Implementation: M5Stack Tab5 (esp_bsp_sdl_m5stack_tab5.c) *)

\* bsp_display_new_with_handles(&cfg, &lcd_handles), then on success
\* s_panel_handle = lcd_handles.panel; s_panel_io_handle = lcd_handles.io;
bsp_display_new_with_handles(m, in) ==
    LET m1 == Call(m, "bsp_display_new_with_handles", NULL) IN
    IF in.rets["bsp_display_new_with_handles"] = ESP_OK
    THEN [m1 EXCEPT !.panel = in.h, !.io = IoOf(in.h)]
    ELSE m1

\* mutant: a failure of the backlight initialisation fails init
m5stack_tab5_init_backlight_fatal(m, a, in) ==
    IF a # {} THEN R(ESP_ERR_INVALID_ARG, m)
    ELSE
    LET m1 == SetCfg(m, Cfg(1280, 720, SDL_PIXELFORMAT_RGB565,
                            (1280 * 720) * 2,
                            IF build.touchEnable THEN build.capsTouch ELSE FALSE))
        m2 == bsp_display_new_with_handles(m1, in)
        m3 == BacklightPreArm(m2, in)
    IN  IF in.rets["bsp_display_new_with_handles"] # ESP_OK
        THEN R(in.rets["bsp_display_new_with_handles"], m2)
        ELSE IF in.rets["bsp_display_brightness_init"] # ESP_OK
        THEN R(in.rets["bsp_display_brightness_init"], m3)
        ELSE R(ESP_OK, ReturnHandles(m3, m3.panel, m3.io))

m5stack_tab5_init(m, a, in) ==
    IF a # {} THEN R(ESP_ERR_INVALID_ARG, m)
    ELSE
    LET m1 == SetCfg(m, Cfg(1280, 720, SDL_PIXELFORMAT_RGB565,
                            (1280 * 720) * 2,
                            IF build.touchEnable THEN build.capsTouch ELSE FALSE))
        m2 == bsp_display_new_with_handles(m1, in)
        m3 == BacklightPreArm(m2, in)
    IN  IF in.rets["bsp_display_new_with_handles"] # ESP_OK
        THEN R(in.rets["bsp_display_new_with_handles"], m2)
        ELSE R(ESP_OK, ReturnHandles(m3, m3.panel, m3.io))

-----------------------------------------------------------------------------
(* Shared shapes of the remaining board operations *)

\* return bsp_display_backlight_on();  /  return bsp_display_backlight_off();
VendorBacklight(m, in, fn) == R(in.rets[fn], Call(m, fn, NULL))

\* if(s_panel_handle) return esp_lcd_panel_disp_on_off(s_panel_handle, enable);
\* return <none>;
PanelOnOff(m, in, none) ==
    IF m.panel # NULL
    THEN R(in.rets["esp_lcd_panel_disp_on_off"],
           Call(m, "esp_lcd_panel_disp_on_off", m.panel))
    ELSE R(none, m)

\* ret = bsp_touch_new(&cfg, &s_touch_handle); if(ret != ESP_OK) return ret;
\* return ESP_OK;
TouchNewStored(m, in) == R(in.rets["bsp_touch_new"], bsp_touch_new(m, in))

\* esp_lcd_touch_get_coordinates(h, x, y, strength, &cnt, 1): copies in.cnt
\* points (at most one) into arrays initialised to 0 and returns cnt > 0
esp_lcd_touch_get_coordinates(in) ==
    [touched |-> in.cnt > 0, cnt |-> in.cnt,
     x |-> IF in.cnt > 0 THEN in.rx ELSE 0,
     y |-> IF in.cnt > 0 THEN in.ry ELSE 0]

\* deinit of a board file: the statics it owns are set to NULL
ClearStatics(m, touchToo) ==
    [m EXCEPT !.panel = NULL, !.io = NULL,
              !.touch = IF touchToo THEN NULL ELSE @]

-----------------------------------------------------------------------------
(* M5 Atom S3: remaining operations *)

m5_atom_s3_backlight_on(m, in) == VendorBacklight(m, in, "bsp_display_backlight_on")
m5_atom_s3_backlight_off(m, in) == VendorBacklight(m, in, "bsp_display_backlight_off")
m5_atom_s3_display_on_off(m, enable, in) == PanelOnOff(m, in, ESP_ERR_INVALID_STATE)

m5_atom_s3_touch_init(m, in) ==
    IF BSP_CAPS_TOUCH_m5_atom_s3 = 1
    THEN R(ESP_ERR_NOT_SUPPORTED, m)
    ELSE R(ESP_ERR_NOT_SUPPORTED, m)

\* tnull: the caller passed touch_info = NULL
m5_atom_s3_touch_read(m, tnull, in) ==
    IF BSP_CAPS_TOUCH_m5_atom_s3 = 1
    THEN IF tnull THEN R(ESP_ERR_INVALID_ARG, m)
         ELSE R(ESP_ERR_NOT_SUPPORTED, SetSample(m, FALSE, 0, 0))
    ELSE R(ESP_ERR_NOT_SUPPORTED, m)

m5_atom_s3_deinit(m) == R(ESP_OK, ClearStatics(m, FALSE))

-----------------------------------------------------------------------------
(* ESP-Box-3: remaining operations *)

esp_box_3_backlight_on(m, in) == VendorBacklight(m, in, "bsp_display_backlight_on")
esp_box_3_backlight_off(m, in) == VendorBacklight(m, in, "bsp_display_backlight_off")
esp_box_3_display_on_off(m, enable, in) == PanelOnOff(m, in, ESP_ERR_INVALID_STATE)

\* the new touch handle goes to a local variable and is dropped
esp_box_3_touch_init(m, in) ==
    IF BSP_CAPS_TOUCH_esp_box_3 = 1
    THEN R(in.rets["bsp_touch_new"], Call(m, "bsp_touch_new", NULL))
    ELSE R(ESP_ERR_NOT_SUPPORTED, m)

esp_box_3_touch_read(m, tnull, in) ==
    IF BSP_CAPS_TOUCH_esp_box_3 = 1
    THEN IF tnull THEN R(ESP_ERR_INVALID_ARG, m)
         ELSE R(ESP_OK, SetSample(m, FALSE, 0, 0))
    ELSE R(ESP_ERR_NOT_SUPPORTED, m)

\* mutant: deinit reports an error when there is no panel to release
esp_box_3_deinit_strict(m) ==
    IF m.panel = NULL THEN R(ESP_ERR_INVALID_STATE, m)
    ELSE R(ESP_OK, ClearStatics(m, FALSE))

esp_box_3_deinit(m) == R(ESP_OK, ClearStatics(m, FALSE))

-----------------------------------------------------------------------------
(* M5Stack CoreS3: remaining operations *)

m5stack_core_s3_board_backlight_on(m, in) ==
    VendorBacklight(m, in, "bsp_display_backlight_on")
m5stack_core_s3_board_backlight_off(m, in) ==
    VendorBacklight(m, in, "bsp_display_backlight_off")
m5stack_core_s3_board_display_on_off(m, enable, in) ==
    PanelOnOff(m, in, ESP_ERR_INVALID_STATE)

m5stack_core_s3_board_touch_init(m, in) ==
    IF build.capsTouch
    THEN LET m1 == Call(m, "bsp_i2c_init", NULL)
             ret == in.rets["bsp_i2c_init"]
         IN  IF ret # ESP_OK /\ ret # ESP_ERR_INVALID_STATE
             THEN R(ret, m1)
             ELSE TouchNewStored(m1, in)
    ELSE R(ESP_ERR_NOT_SUPPORTED, m)

\* bool pressed = esp_lcd_touch_read_data(h): the esp_err_t result is
\* converted to bool, so pressed is true exactly when the read failed
m5stack_core_s3_board_touch_read(m, tnull, in) ==
    IF build.capsTouch
    THEN IF tnull \/ m.touch = NULL THEN R(ESP_ERR_INVALID_ARG, m)
         ELSE LET m1 == Call(m, "esp_lcd_touch_read_data", m.touch)
                  pressed == in.rets["esp_lcd_touch_read_data"] # ESP_OK
                  c == esp_lcd_touch_get_coordinates(in)
                  m2 == Call(m1, "esp_lcd_touch_get_coordinates", m.touch)
              IN  IF pressed
                  THEN IF c.cnt > 0
                       THEN R(ESP_OK, SetSample(m2, TRUE, c.x, c.y))
                       ELSE R(ESP_OK, SetSample(m2, FALSE, 0, 0))
                  ELSE R(ESP_OK, SetSample(m1, FALSE, 0, 0))
    ELSE R(ESP_ERR_NOT_SUPPORTED, m)

\* the CoreS3 deinit clears the panel and IO handles only
m5stack_core_s3_board_deinit(m) == R(ESP_OK, ClearStatics(m, FALSE))

-----------------------------------------------------------------------------
(* ESP32-P4 Function EV Board: remaining operations *)

esp32_p4_function_ev_backlight_on(m, in) ==
    VendorBacklight(m, in, "bsp_display_backlight_on")
esp32_p4_function_ev_backlight_off(m, in) ==
    VendorBacklight(m, in, "bsp_display_backlight_off")

\* mutant: the panel is switched through the driver, as on the other boards
esp32_p4_function_ev_display_on_off_by_panel(m, enable, in) ==
    PanelOnOff(m, in, ESP_ERR_INVALID_STATE)

\* DPI panels are always on
esp32_p4_function_ev_display_on_off(m, enable, in) == R(ESP_OK, m)

esp32_p4_function_ev_touch_init(m, in) ==
    IF build.capsTouch
    THEN IF build.touchEnable
         THEN TouchNewStored(m, in)
         ELSE R(ESP_ERR_NOT_SUPPORTED, m)
    ELSE R(ESP_ERR_NOT_SUPPORTED, m)

\* mutant: a failed read reports "not pressed" at the last raw position
ReadSample_keeps_position(m, in, fx, fy) ==
    LET m1 == Call(m, "esp_lcd_touch_read_data", m.touch)
        c == esp_lcd_touch_get_coordinates(in)
        m2 == Call(m1, "esp_lcd_touch_get_coordinates", m.touch)
    IN  IF in.rets["esp_lcd_touch_read_data"] = ESP_OK
        THEN IF c.touched /\ c.cnt > 0
             THEN R(ESP_OK, SetSample(m2, TRUE, fx, fy))
             ELSE R(ESP_OK, SetSample(m2, FALSE, 0, 0))
        ELSE R(ESP_OK, SetSample(m1, FALSE, fx, fy))

\* read the controller; a pressed sample carries f(raw x, raw y)
ReadSample(m, in, fx, fy) ==
    LET m1 == Call(m, "esp_lcd_touch_read_data", m.touch)
        c == esp_lcd_touch_get_coordinates(in)
        m2 == Call(m1, "esp_lcd_touch_get_coordinates", m.touch)
    IN  IF in.rets["esp_lcd_touch_read_data"] = ESP_OK
        THEN IF c.touched /\ c.cnt > 0
             THEN R(ESP_OK, SetSample(m2, TRUE, fx, fy))
             ELSE R(ESP_OK, SetSample(m2, FALSE, 0, 0))
        ELSE R(ESP_OK, SetSample(m1, FALSE, 0, 0))

esp32_p4_function_ev_touch_read(m, tnull, in) ==
    IF build.capsTouch
    THEN IF build.touchEnable
         THEN IF tnull THEN R(ESP_ERR_INVALID_ARG, m)
              ELSE IF m.touch = NULL
              THEN R(ESP_ERR_INVALID_STATE, SetSample(m, FALSE, 0, 0))
              ELSE LET c == esp_lcd_touch_get_coordinates(in)
                   IN  ReadSample(m, in, c.x, c.y)
         ELSE IF tnull THEN R(ESP_ERR_NOT_SUPPORTED, m)
              ELSE R(ESP_ERR_NOT_SUPPORTED, SetSample(m, FALSE, 0, 0))
    ELSE R(ESP_ERR_NOT_SUPPORTED, m)

esp32_p4_function_ev_deinit(m) == R(ESP_OK, ClearStatics(m, TRUE))

-----------------------------------------------------------------------------
(* ESP32-S3-LCD-EV-Board: remaining operations *)

\* the backlight is hardware-controlled (always on)
\* mutant: backlight_off asks the vendor BSP to switch the backlight
esp32_s3_lcd_ev_board_backlight_off_by_vendor(m, in) ==
    VendorBacklight(m, in, "bsp_display_backlight_off")

esp32_s3_lcd_ev_board_backlight_on(m, in) == R(ESP_ERR_NOT_SUPPORTED, m)
esp32_s3_lcd_ev_board_backlight_off(m, in) == R(ESP_ERR_NOT_SUPPORTED, m)
esp32_s3_lcd_ev_board_display_on_off(m, enable, in) ==
    PanelOnOff(m, in, ESP_ERR_INVALID_STATE)

esp32_s3_lcd_ev_board_touch_init(m, in) ==
    IF build.touchEnable
    THEN IF build.capsTouch
         THEN TouchNewStored(m, in)
         ELSE R(ESP_ERR_NOT_SUPPORTED, m)
    ELSE R(ESP_ERR_NOT_SUPPORTED, m)

\* the result of esp_lcd_touch_read_data is not looked at
esp32_s3_lcd_ev_board_touch_read(m, tnull, in) ==
    IF build.touchEnable
    THEN IF build.capsTouch
         THEN IF tnull \/ m.touch = NULL THEN R(ESP_ERR_INVALID_ARG, m)
              ELSE LET m1 == Call(m, "esp_lcd_touch_read_data", m.touch)
                       c == esp_lcd_touch_get_coordinates(in)
                       m2 == Call(m1, "esp_lcd_touch_get_coordinates", m.touch)
                       pressed == c.touched /\ (c.cnt > 0)
                   IN  R(ESP_OK, SetSample(m2, pressed,
                                           IF pressed THEN c.x ELSE 0,
                                           IF pressed THEN c.y ELSE 0))
         ELSE R(ESP_ERR_NOT_SUPPORTED, m)
    ELSE R(ESP_ERR_NOT_SUPPORTED, m)

\* s_touch_handle exists only in builds with CONFIG_SDL_BSP_TOUCH_ENABLE
esp32_s3_lcd_ev_board_deinit(m) == R(ESP_OK, ClearStatics(m, build.touchEnable))

-----------------------------------------------------------------------------
(* M5Stack Tab5: remaining operations *)

m5stack_tab5_backlight_on(m, in) == VendorBacklight(m, in, "bsp_display_backlight_on")
m5stack_tab5_backlight_off(m, in) == VendorBacklight(m, in, "bsp_display_backlight_off")

\* without a panel handle the Tab5 reports success
m5stack_tab5_display_on_off(m, enable, in) == PanelOnOff(m, in, ESP_OK)

m5stack_tab5_touch_init(m, in) ==
    IF build.touchEnable
    THEN TouchNewStored(m, in)
    ELSE R(ESP_ERR_NOT_SUPPORTED, m)

\* native portrait 720x1280 to landscape 1280x720 (C integer division)
m5stack_tab5_touch_read(m, tnull, in) ==
    IF build.touchEnable
    THEN IF tnull THEN R(ESP_ERR_INVALID_ARG, m)
         ELSE IF m.touch = NULL
         THEN R(ESP_ERR_INVALID_STATE, SetSample(m, FALSE, 0, 0))
         ELSE LET c == esp_lcd_touch_get_coordinates(in)
              IN  ReadSample(m, in,
                             (c.y * 1280) \div 720,
                             720 - ((c.x * 720) \div 1280))
    ELSE R(ESP_ERR_NOT_SUPPORTED, m)

m5stack_tab5_deinit(m) == R(ESP_OK, ClearStatics(m, build.touchEnable))

-----------------------------------------------------------------------------
(* Board file esp_bsp_sdl_esp_box_3.c: ESP-Box-3, linked directly *)

esp_box_3_standalone_init(m, a, in) ==
    IF a # {} THEN R(ESP_ERR_INVALID_ARG, m)
    ELSE
    LET m1 == SetCfg(m, Cfg(BSP_LCD_H_RES, BSP_LCD_V_RES, SDL_PIXELFORMAT_RGB565,
                            (BSP_LCD_H_RES * BSP_LCD_V_RES) * sizeof_uint16_t,
                            build.capsTouch))
        m2 == bsp_display_new(m1, in)
    IN  IF in.rets["bsp_display_new"] # ESP_OK
        THEN R(in.rets["bsp_display_new"], m2)
        ELSE R(ESP_OK, ReturnHandles(m2, m2.panel, m2.io))

esp_box_3_standalone_backlight_on(m, in) ==
    VendorBacklight(m, in, "bsp_display_backlight_on")
esp_box_3_standalone_backlight_off(m, in) ==
    VendorBacklight(m, in, "bsp_display_backlight_off")
esp_box_3_standalone_display_on_off(m, enable, in) ==
    PanelOnOff(m, in, ESP_ERR_INVALID_STATE)

\* the new touch handle goes to a local variable and is dropped
esp_box_3_standalone_touch_init(m, in) ==
    IF build.capsTouch
    THEN R(in.rets["bsp_touch_new"], Call(m, "bsp_touch_new", NULL))
    ELSE R(ESP_ERR_NOT_SUPPORTED, m)

\* no controller is read: the sample is always "not pressed"
esp_box_3_standalone_touch_read(m, tnull, in) ==
    IF build.capsTouch
    THEN IF tnull THEN R(ESP_ERR_INVALID_ARG, m)
         ELSE R(ESP_OK, SetSample(m, FALSE, 0, 0))
    ELSE R(ESP_ERR_NOT_SUPPORTED, m)

esp_box_3_standalone_deinit(m) == R(ESP_OK, ClearStatics(m, FALSE))

-----------------------------------------------------------------------------
(* Board file esp_bsp_sdl_esp_bsp_generic.c: configurable DevKit + display *)

\* size of the virtual display of a build without a display
GENERIC_FALLBACK_WIDTH == 240
GENERIC_FALLBACK_HEIGHT == 320

esp_bsp_generic_init(m, a, in) ==
    IF a # {} THEN R(ESP_ERR_INVALID_ARG, m)
    ELSE IF build.genDisplay
    THEN LET w == build.genRes[1]
             h == build.genRes[2]
             m1 == SetCfg(m, Cfg(w, h, SDL_PIXELFORMAT_RGB565,
                                 (w * h) * sizeof_uint16_t, build.genTouch))
             m2 == bsp_display_new(m1, in)
             m3 == Call(m2, "esp_lcd_panel_disp_on_off", m2.panel)
             m4 == BacklightPreArm(m3, in)
         IN  IF in.rets["bsp_display_new"] # ESP_OK
             THEN R(in.rets["bsp_display_new"], m2)
             ELSE IF in.rets["esp_lcd_panel_disp_on_off"] # ESP_OK
             THEN R(in.rets["esp_lcd_panel_disp_on_off"], m3)
             ELSE R(ESP_OK, ReturnHandles(m4, m4.panel, m4.io))
    ELSE LET m1 == SetCfg(m, Cfg(GENERIC_FALLBACK_WIDTH, GENERIC_FALLBACK_HEIGHT,
                                 SDL_PIXELFORMAT_RGB565,
                                 (GENERIC_FALLBACK_WIDTH * GENERIC_FALLBACK_HEIGHT)
                                     * sizeof_uint16_t,
                                 FALSE))
         IN  R(ESP_OK, ReturnHandles(m1, NULL, NULL))

esp_bsp_generic_backlight_on(m, in) ==
    VendorBacklight(m, in, "bsp_display_backlight_on")
esp_bsp_generic_backlight_off(m, in) ==
    VendorBacklight(m, in, "bsp_display_backlight_off")
\* mutant: without a panel handle the call is a no-op success, as on the Tab5
esp_bsp_generic_display_on_off_lenient(m, enable, in) == PanelOnOff(m, in, ESP_OK)

esp_bsp_generic_display_on_off(m, enable, in) ==
    PanelOnOff(m, in, ESP_ERR_INVALID_STATE)

\* bsp_touch_new(NULL, NULL): no handle is asked for
esp_bsp_generic_touch_init(m, in) ==
    IF build.genTouch
    THEN R(in.rets["bsp_touch_new"], Call(m, "bsp_touch_new", NULL))
    ELSE R(ESP_ERR_NOT_SUPPORTED, m)

\* reading is not implemented: the sample is cleared, the result is an error
esp_bsp_generic_touch_read(m, tnull, in) ==
    IF build.genTouch
    THEN IF tnull THEN R(ESP_ERR_INVALID_ARG, m)
         ELSE R(ESP_ERR_NOT_SUPPORTED, SetSample(m, FALSE, 0, 0))
    ELSE R(ESP_ERR_NOT_SUPPORTED, m)

esp_bsp_generic_deinit(m) == R(ESP_OK, ClearStatics(m, FALSE))

-----------------------------------------------------------------------------
(* Board file esp_bsp_sdl_esp_bsp_devkit.c: DevKit without a display *)

VIRTUAL_DISPLAY_WIDTH == 240
VIRTUAL_DISPLAY_HEIGHT == 320

\* mutant: the descriptor is filled before the handle slots are tested
esp_bsp_devkit_init_fills_first(m, a, in) ==
    IF "config" \in a THEN R(ESP_ERR_INVALID_ARG, m)
    ELSE LET m1 == SetCfg(m, Cfg(VIRTUAL_DISPLAY_WIDTH, VIRTUAL_DISPLAY_HEIGHT,
                                 SDL_PIXELFORMAT_RGB565,
                                 (VIRTUAL_DISPLAY_WIDTH * VIRTUAL_DISPLAY_HEIGHT)
                                     * sizeof_uint16_t,
                                 FALSE))
         IN  IF a # {} THEN R(ESP_ERR_INVALID_ARG, m1)
             ELSE R(ESP_OK, ReturnHandles(m1, NULL, NULL))

\* the build compiles the call of this set-up function
DevKitCalls(fn) ==
    \/ fn = "bsp_leds_init" /\ "LED" \in build.devkit
    \/ fn = "bsp_iot_button_create" /\ "BUTTON" \in build.devkit
    \/ fn = "bsp_spiffs_mount" /\ "SPIFFS" \in build.devkit
    \/ fn = "bsp_spiffs_unmount" /\ "SPIFFS" \in build.devkit

\* a set-up call of an optional part: its result is logged and dropped
Optional(m, fn) == IF DevKitCalls(fn) THEN Call(m, fn, NULL) ELSE m

\* mutant: a failed set-up of an optional part fails the init
esp_bsp_devkit_init_strict(m, a, in) ==
    IF a # {} THEN R(ESP_ERR_INVALID_ARG, m)
    ELSE LET m1 == SetCfg(m, Cfg(VIRTUAL_DISPLAY_WIDTH, VIRTUAL_DISPLAY_HEIGHT,
                                 SDL_PIXELFORMAT_RGB565,
                                 (VIRTUAL_DISPLAY_WIDTH * VIRTUAL_DISPLAY_HEIGHT)
                                     * sizeof_uint16_t,
                                 FALSE))
             m2 == Optional(m1, "bsp_leds_init")
             m3 == Optional(m2, "bsp_iot_button_create")
             m4 == Optional(m3, "bsp_spiffs_mount")
         IN  IF in.rets["bsp_spiffs_mount"] # ESP_OK
             THEN R(in.rets["bsp_spiffs_mount"], m4)
             ELSE R(ESP_OK, ReturnHandles(m4, NULL, NULL))

esp_bsp_devkit_init(m, a, in) ==
    IF a # {} THEN R(ESP_ERR_INVALID_ARG, m)
    ELSE LET m1 == SetCfg(m, Cfg(VIRTUAL_DISPLAY_WIDTH, VIRTUAL_DISPLAY_HEIGHT,
                                 SDL_PIXELFORMAT_RGB565,
                                 (VIRTUAL_DISPLAY_WIDTH * VIRTUAL_DISPLAY_HEIGHT)
                                     * sizeof_uint16_t,
                                 FALSE))
             m2 == Optional(m1, "bsp_leds_init")
             m3 == Optional(m2, "bsp_iot_button_create")
             m4 == Optional(m3, "bsp_spiffs_mount")
         IN  R(ESP_OK, ReturnHandles(m4, NULL, NULL))

esp_bsp_devkit_backlight_on(m, in) == R(ESP_OK, m)
esp_bsp_devkit_backlight_off(m, in) == R(ESP_OK, m)
esp_bsp_devkit_display_on_off(m, enable, in) == R(ESP_OK, m)
esp_bsp_devkit_touch_init(m, in) == R(ESP_ERR_NOT_SUPPORTED, m)
esp_bsp_devkit_touch_read(m, tnull, in) == R(ESP_ERR_NOT_SUPPORTED, m)
esp_bsp_devkit_deinit(m) == R(ESP_OK, Optional(m, "bsp_spiffs_unmount"))

-----------------------------------------------------------------------------
(* Board Interface: the function-pointer table of each board *)

Iface_init(b, m, a, in) ==
    CASE b = M5_ATOM_S3 -> m5_atom_s3_init(m, a, in)
      [] b = ESP_BOX_3 -> esp_box_3_init(m, a, in)
      [] b = M5STACK_CORE_S3 -> m5stack_core_s3_board_init(m, a, in)
      [] b = ESP32_P4_FUNCTION_EV -> esp32_p4_function_ev_init(m, a, in)
      [] b = ESP32_S3_LCD_EV_BOARD -> esp32_s3_lcd_ev_board_init(m, a, in)
      [] b = M5STACK_TAB5 -> m5stack_tab5_init(m, a, in)

Iface_backlight_on(b, m, in) ==
    CASE b = M5_ATOM_S3 -> m5_atom_s3_backlight_on(m, in)
      [] b = ESP_BOX_3 -> esp_box_3_backlight_on(m, in)
      [] b = M5STACK_CORE_S3 -> m5stack_core_s3_board_backlight_on(m, in)
      [] b = ESP32_P4_FUNCTION_EV -> esp32_p4_function_ev_backlight_on(m, in)
      [] b = ESP32_S3_LCD_EV_BOARD -> esp32_s3_lcd_ev_board_backlight_on(m, in)
      [] b = M5STACK_TAB5 -> m5stack_tab5_backlight_on(m, in)

Iface_backlight_off(b, m, in) ==
    CASE b = M5_ATOM_S3 -> m5_atom_s3_backlight_off(m, in)
      [] b = ESP_BOX_3 -> esp_box_3_backlight_off(m, in)
      [] b = M5STACK_CORE_S3 -> m5stack_core_s3_board_backlight_off(m, in)
      [] b = ESP32_P4_FUNCTION_EV -> esp32_p4_function_ev_backlight_off(m, in)
      [] b = ESP32_S3_LCD_EV_BOARD -> esp32_s3_lcd_ev_board_backlight_off(m, in)
      [] b = M5STACK_TAB5 -> m5stack_tab5_backlight_off(m, in)

Iface_display_on_off(b, m, enable, in) ==
    CASE b = M5_ATOM_S3 -> m5_atom_s3_display_on_off(m, enable, in)
      [] b = ESP_BOX_3 -> esp_box_3_display_on_off(m, enable, in)
      [] b = M5STACK_CORE_S3 -> m5stack_core_s3_board_display_on_off(m, enable, in)
      [] b = ESP32_P4_FUNCTION_EV -> esp32_p4_function_ev_display_on_off(m, enable, in)
      [] b = ESP32_S3_LCD_EV_BOARD -> esp32_s3_lcd_ev_board_display_on_off(m, enable, in)
      [] b = M5STACK_TAB5 -> m5stack_tab5_display_on_off(m, enable, in)

Iface_touch_init(b, m, in) ==
    CASE b = M5_ATOM_S3 -> m5_atom_s3_touch_init(m, in)
      [] b = ESP_BOX_3 -> esp_box_3_touch_init(m, in)
      [] b = M5STACK_CORE_S3 -> m5stack_core_s3_board_touch_init(m, in)
      [] b = ESP32_P4_FUNCTION_EV -> esp32_p4_function_ev_touch_init(m, in)
      [] b = ESP32_S3_LCD_EV_BOARD -> esp32_s3_lcd_ev_board_touch_init(m, in)
      [] b = M5STACK_TAB5 -> m5stack_tab5_touch_init(m, in)

Iface_touch_read(b, m, tnull, in) ==
    CASE b = M5_ATOM_S3 -> m5_atom_s3_touch_read(m, tnull, in)
      [] b = ESP_BOX_3 -> esp_box_3_touch_read(m, tnull, in)
      [] b = M5STACK_CORE_S3 -> m5stack_core_s3_board_touch_read(m, tnull, in)
      [] b = ESP32_P4_FUNCTION_EV -> esp32_p4_function_ev_touch_read(m, tnull, in)
      [] b = ESP32_S3_LCD_EV_BOARD -> esp32_s3_lcd_ev_board_touch_read(m, tnull, in)
      [] b = M5STACK_TAB5 -> m5stack_tab5_touch_read(m, tnull, in)

Iface_deinit(b, m) ==
    CASE b = M5_ATOM_S3 -> m5_atom_s3_deinit(m)
      [] b = ESP_BOX_3 -> esp_box_3_deinit(m)
      [] b = M5STACK_CORE_S3 -> m5stack_core_s3_board_deinit(m)
      [] b = ESP32_P4_FUNCTION_EV -> esp32_p4_function_ev_deinit(m)
      [] b = ESP32_S3_LCD_EV_BOARD -> esp32_s3_lcd_ev_board_deinit(m)
      [] b = M5STACK_TAB5 -> m5stack_tab5_deinit(m)

\* the .board_name field of each interface table
Iface_board_name(b) ==
    CASE b = M5_ATOM_S3 -> "M5 Atom S3"
      [] b = ESP_BOX_3 -> "ESP32-S3-BOX-3"
      [] b = M5STACK_CORE_S3 -> "M5Stack CoreS3"
      [] b = ESP32_P4_FUNCTION_EV -> "ESP32-P4 Function EV Board"
      [] b = ESP32_S3_LCD_EV_BOARD -> "ESP32-S3-LCD-EV-Board"
      [] b = M5STACK_TAB5 -> "M5Stack Tab5"

\* the string the get_name function of each board returns
Iface_get_name(b) ==
    CASE b = M5_ATOM_S3 -> "M5 Atom S3"
      [] b = ESP_BOX_3 -> "ESP-Box-3"
      [] b = M5STACK_CORE_S3 -> "M5Stack CoreS3"
      [] b = ESP32_P4_FUNCTION_EV -> "ESP32-P4 Function EV Board"
      [] b = ESP32_S3_LCD_EV_BOARD -> "ESP32-S3-LCD-EV-Board"
      [] b = M5STACK_TAB5 -> "M5Stack Tab5"

-----------------------------------------------------------------------------
(* The operations of the board file a build compiles: the entries of its
   interface table, or the esp_bsp_sdl_board_* functions of a file that is
   linked directly *)

Board_init(b, m, a, in) ==
    CASE b \in Boards -> Iface_init(b, m, a, in)
      [] b = ESP_BOX_3_STANDALONE -> esp_box_3_standalone_init(m, a, in)
      [] b = ESP_BSP_GENERIC -> esp_bsp_generic_init(m, a, in)
      [] b = ESP_BSP_DEVKIT -> esp_bsp_devkit_init(m, a, in)

Board_backlight_on(b, m, in) ==
    CASE b \in Boards -> Iface_backlight_on(b, m, in)
      [] b = ESP_BOX_3_STANDALONE -> esp_box_3_standalone_backlight_on(m, in)
      [] b = ESP_BSP_GENERIC -> esp_bsp_generic_backlight_on(m, in)
      [] b = ESP_BSP_DEVKIT -> esp_bsp_devkit_backlight_on(m, in)

Board_backlight_off(b, m, in) ==
    CASE b \in Boards -> Iface_backlight_off(b, m, in)
      [] b = ESP_BOX_3_STANDALONE -> esp_box_3_standalone_backlight_off(m, in)
      [] b = ESP_BSP_GENERIC -> esp_bsp_generic_backlight_off(m, in)
      [] b = ESP_BSP_DEVKIT -> esp_bsp_devkit_backlight_off(m, in)

Board_display_on_off(b, m, enable, in) ==
    CASE b \in Boards -> Iface_display_on_off(b, m, enable, in)
      [] b = ESP_BOX_3_STANDALONE -> esp_box_3_standalone_display_on_off(m, enable, in)
      [] b = ESP_BSP_GENERIC -> esp_bsp_generic_display_on_off(m, enable, in)
      [] b = ESP_BSP_DEVKIT -> esp_bsp_devkit_display_on_off(m, enable, in)

Board_touch_init(b, m, in) ==
    CASE b \in Boards -> Iface_touch_init(b, m, in)
      [] b = ESP_BOX_3_STANDALONE -> esp_box_3_standalone_touch_init(m, in)
      [] b = ESP_BSP_GENERIC -> esp_bsp_generic_touch_init(m, in)
      [] b = ESP_BSP_DEVKIT -> esp_bsp_devkit_touch_init(m, in)

Board_touch_read(b, m, tnull, in) ==
    CASE b \in Boards -> Iface_touch_read(b, m, tnull, in)
      [] b = ESP_BOX_3_STANDALONE -> esp_box_3_standalone_touch_read(m, tnull, in)
      [] b = ESP_BSP_GENERIC -> esp_bsp_generic_touch_read(m, tnull, in)
      [] b = ESP_BSP_DEVKIT -> esp_bsp_devkit_touch_read(m, tnull, in)

Board_deinit(b, m) ==
    CASE b \in Boards -> Iface_deinit(b, m)
      [] b = ESP_BOX_3_STANDALONE -> esp_box_3_standalone_deinit(m)
      [] b = ESP_BSP_GENERIC -> esp_bsp_generic_deinit(m)
      [] b = ESP_BSP_DEVKIT -> esp_bsp_devkit_deinit(m)

-----------------------------------------------------------------------------
(* Dispatcher (esp_bsp_sdl_common.c) *)

NoArg == [nulls |-> {}, enable |-> FALSE]

\* the caller-visible outputs held in memory m
Outputs(m) == [cfg |-> m.cfg, out_panel |-> m.out_panel, out_io |-> m.out_io, ti |-> m.ti]

\* one forwarded call: which table, which entry, with what, and what the
\* board operation returned (r: its return code and the memory it left)
Fwd(b, op, arg, r) ==
    [board |-> b, op |-> op, arg |-> arg, ret |-> r.ret, out |-> Outputs(r.m)]

\* result of a Dispatcher operation: return code, new cell, memory, forwards
D(ret, cur, m, fwd) == [ret |-> ret, cur |-> cur, m |-> m, fwd |-> fwd]

esp_bsp_sdl_init(cur, m, a, in) ==
    LET b == detect_board(build.markers) IN
    IF b = NoBoard
    THEN D(ESP_ERR_NOT_SUPPORTED, b, m, <<>>)
    ELSE LET r == Iface_init(b, m, a, in)
         IN  D(r.ret, b, r.m, <<Fwd(b, "init", [NoArg EXCEPT !.nulls = a], r)>>)

\* mutant: without a board the call is a no-op success, as in deinit
esp_bsp_sdl_backlight_on_lenient(cur, m, in) ==
    IF cur = NoBoard
    THEN D(ESP_OK, cur, m, <<>>)
    ELSE LET r == Iface_backlight_on(cur, m, in)
         IN  D(r.ret, cur, r.m, <<Fwd(cur, "backlight_on", NoArg, r)>>)

esp_bsp_sdl_backlight_on(cur, m, in) ==
    IF cur = NoBoard
    THEN D(ESP_ERR_INVALID_STATE, cur, m, <<>>)
    ELSE LET r == Iface_backlight_on(cur, m, in)
         IN  D(r.ret, cur, r.m, <<Fwd(cur, "backlight_on", NoArg, r)>>)

\* mutant: the call reaches the compiled-in board's table directly, not
\* through the cell
esp_bsp_sdl_backlight_off_unguarded(cur, m, in) ==
    LET b == detect_board(build.markers) IN
    IF b = NoBoard
    THEN D(ESP_ERR_INVALID_STATE, cur, m, <<>>)
    ELSE LET r == Iface_backlight_off(b, m, in)
         IN  D(r.ret, cur, r.m, <<Fwd(b, "backlight_off", NoArg, r)>>)

esp_bsp_sdl_backlight_off(cur, m, in) ==
    IF cur = NoBoard
    THEN D(ESP_ERR_INVALID_STATE, cur, m, <<>>)
    ELSE LET r == Iface_backlight_off(cur, m, in)
         IN  D(r.ret, cur, r.m, <<Fwd(cur, "backlight_off", NoArg, r)>>)

\* mutant: the caller's enable flag is not passed on
esp_bsp_sdl_display_on_off_always(cur, m, enable, in) ==
    IF cur = NoBoard
    THEN D(ESP_ERR_INVALID_STATE, cur, m, <<>>)
    ELSE LET r == Iface_display_on_off(cur, m, TRUE, in)
         IN  D(r.ret, cur, r.m,
               <<Fwd(cur, "display_on_off", [NoArg EXCEPT !.enable = TRUE], r)>>)

esp_bsp_sdl_display_on_off(cur, m, enable, in) ==
    IF cur = NoBoard
    THEN D(ESP_ERR_INVALID_STATE, cur, m, <<>>)
    ELSE LET r == Iface_display_on_off(cur, m, enable, in)
         IN  D(r.ret, cur, r.m,
               <<Fwd(cur, "display_on_off", [NoArg EXCEPT !.enable = enable], r)>>)

\* mutant: a failed touch_init drops the selected board
esp_bsp_sdl_touch_init_drops_board(cur, m, in) ==
    IF cur = NoBoard
    THEN D(ESP_ERR_INVALID_STATE, cur, m, <<>>)
    ELSE LET r == Iface_touch_init(cur, m, in)
         IN  D(r.ret, IF r.ret = ESP_OK THEN cur ELSE NoBoard, r.m,
               <<Fwd(cur, "touch_init", NoArg, r)>>)

esp_bsp_sdl_touch_init(cur, m, in) ==
    IF cur = NoBoard
    THEN D(ESP_ERR_INVALID_STATE, cur, m, <<>>)
    ELSE LET r == Iface_touch_init(cur, m, in)
         IN  D(r.ret, cur, r.m, <<Fwd(cur, "touch_init", NoArg, r)>>)

\* mutant: the state is tested before the argument
esp_bsp_sdl_touch_read_state_first(cur, m, tnull, in) ==
    IF cur = NoBoard
    THEN D(ESP_ERR_INVALID_STATE, cur, m, <<>>)
    ELSE IF tnull
    THEN D(ESP_ERR_INVALID_ARG, cur, m, <<>>)
    ELSE LET r == Iface_touch_read(cur, m, tnull, in)
         IN  D(r.ret, cur, r.m, <<Fwd(cur, "touch_read", NoArg, r)>>)

esp_bsp_sdl_touch_read(cur, m, tnull, in) ==
    IF tnull
    THEN D(ESP_ERR_INVALID_ARG, cur, m, <<>>)
    ELSE IF cur = NoBoard
    THEN D(ESP_ERR_INVALID_STATE, cur, m, <<>>)
    ELSE LET r == Iface_touch_read(cur, m, tnull, in)
         IN  D(r.ret, cur, r.m, <<Fwd(cur, "touch_read", NoArg, r)>>)

Unknown == "Unknown"

\* mutant: no sentinel, the name of no board is the empty string
esp_bsp_sdl_get_board_name_nosentinel(cur) ==
    IF cur = NoBoard THEN "" ELSE Iface_board_name(cur)

esp_bsp_sdl_get_board_name(cur) ==
    IF cur = NoBoard THEN Unknown ELSE Iface_board_name(cur)

\* mutant: the cell is not cleared after the board's deinit
esp_bsp_sdl_deinit_keeps_cell(cur, m) ==
    IF cur = NoBoard
    THEN D(ESP_OK, cur, m, <<>>)
    ELSE LET r == Iface_deinit(cur, m)
         IN  D(r.ret, cur, r.m, <<Fwd(cur, "deinit", NoArg, r)>>)

esp_bsp_sdl_deinit(cur, m) ==
    IF cur = NoBoard
    THEN D(ESP_OK, cur, m, <<>>)
    ELSE LET r == Iface_deinit(cur, m)
         IN  D(r.ret, NoBoard, r.m, <<Fwd(cur, "deinit", NoArg, r)>>)

-----------------------------------------------------------------------------
(* Inputs of a call: what the vendor BSP answers *)

VendorFns ==
    {"bsp_i2c_init", "bsp_display_brightness_init", "bsp_display_new",
     "bsp_display_new_with_handles", "esp_lcd_panel_disp_on_off",
     "bsp_display_backlight_on", "bsp_display_backlight_off",
     "bsp_touch_new", "esp_lcd_touch_read_data",
     "bsp_leds_init", "bsp_iot_button_create", "bsp_spiffs_mount"}

\* the codes a vendor call may return; bsp_i2c_init also reports
\* ESP_ERR_INVALID_STATE when the bus is already installed
RetsOf(fn) ==
    IF fn = "bsp_i2c_init"
    THEN {ESP_OK, ESP_FAIL, ESP_ERR_INVALID_STATE}
    ELSE {ESP_OK, ESP_FAIL}

\* resolutions bsp_display_get_h_res / _v_res may report (0 = not determined yet)
VendorRes == {<<0, 0>>, <<480, 480>>, <<800, 480>>}

DefaultIn ==
    [rets |-> [fn \in VendorFns |-> ESP_OK],
     h |-> 1, th |-> 21, res |-> <<0, 0>>, cnt |-> 0, rx |-> 0, ry |-> 0]

\* the vendor functions an operation of board b can reach
UsedBy(b, op) ==
    CASE op = "init" ->
            (CASE b = M5_ATOM_S3 ->
                    {"bsp_display_brightness_init", "bsp_display_new",
                     "esp_lcd_panel_disp_on_off", "bsp_display_backlight_on"}
               [] b = ESP_BOX_3 -> {"bsp_display_new"}
               [] b = M5STACK_CORE_S3 ->
                    {"bsp_i2c_init", "bsp_display_brightness_init", "bsp_display_new",
                     "esp_lcd_panel_disp_on_off", "bsp_display_backlight_on"}
               [] b = ESP32_P4_FUNCTION_EV ->
                    {"bsp_display_new", "bsp_display_brightness_init",
                     "bsp_display_backlight_on"}
               [] b = ESP32_S3_LCD_EV_BOARD ->
                    {"bsp_display_new", "esp_lcd_panel_disp_on_off"}
               [] b = M5STACK_TAB5 ->
                    {"bsp_display_new_with_handles", "bsp_display_brightness_init",
                     "bsp_display_backlight_on"}
               [] b = ESP_BOX_3_STANDALONE -> {"bsp_display_new"}
               [] b = ESP_BSP_GENERIC ->
                    {"bsp_display_new", "esp_lcd_panel_disp_on_off",
                     "bsp_display_brightness_init", "bsp_display_backlight_on"}
               [] b = ESP_BSP_DEVKIT ->
                    {fn \in {"bsp_leds_init", "bsp_iot_button_create",
                             "bsp_spiffs_mount"} : DevKitCalls(fn)}
               [] OTHER -> {})
      [] op = "backlight_on" ->
            IF b \in (Boards \ {ESP32_S3_LCD_EV_BOARD})
                        \cup {ESP_BOX_3_STANDALONE, ESP_BSP_GENERIC}
            THEN {"bsp_display_backlight_on"} ELSE {}
      [] op = "backlight_off" ->
            IF b \in (Boards \ {ESP32_S3_LCD_EV_BOARD})
                        \cup {ESP_BOX_3_STANDALONE, ESP_BSP_GENERIC}
            THEN {"bsp_display_backlight_off"} ELSE {}
      [] op = "display_on_off" ->
            IF b \in (Boards \ {ESP32_P4_FUNCTION_EV})
                        \cup {ESP_BOX_3_STANDALONE, ESP_BSP_GENERIC}
            THEN {"esp_lcd_panel_disp_on_off"} ELSE {}
      [] op = "touch_init" ->
            (CASE b = M5STACK_CORE_S3 -> {"bsp_i2c_init", "bsp_touch_new"}
               [] b \in {ESP32_P4_FUNCTION_EV, ESP32_S3_LCD_EV_BOARD, M5STACK_TAB5,
                         ESP_BOX_3_STANDALONE, ESP_BSP_GENERIC} ->
                    {"bsp_touch_new"}
               [] OTHER -> {})
      [] op = "touch_read" ->
            IF b \in {M5STACK_CORE_S3, ESP32_P4_FUNCTION_EV, ESP32_S3_LCD_EV_BOARD,
                      M5STACK_TAB5}
            THEN {"esp_lcd_touch_read_data"} ELSE {}
      [] OTHER -> {}

\* every answer the vendor may give to the calls in `used`
RetChoices(used) ==
    { [fn \in VendorFns |-> IF fn \in used THEN g[fn] ELSE ESP_OK] :
        g \in { f \in [used -> {ESP_OK, ESP_FAIL, ESP_ERR_INVALID_STATE}] :
                  \A fn \in used : f[fn] \in RetsOf(fn) } }

-----------------------------------------------------------------------------
(* State machine *)

\* what a caller's panel-handle variable may hold before init writes it
PreOut == {NULL, 1}

NoSample == Sample(FALSE, 0, 0)

\* the memory of a handler: the board statics and the caller's variables
MemNow(cfg, outp, ti) ==
    Mem(s_panel_handle, s_panel_io_handle, s_touch_handle, cfg, outp, IoOf(outp), ti)

\* the record kept of a public call
Rec(op, arg, tnull, ret, name, d, in) ==
    [op |-> op, preCur |-> s_current_board, preLife |-> lifecycle,
     preName |-> sessionName, preTrip |-> trip, preTouchHist |-> touchHist,
     prePanel |-> s_panel_handle, preTouch |-> s_touch_handle,
     nulls |-> arg.nulls, enable |-> arg.enable, tnull |-> tnull,
     ret |-> ret, name |-> name, fwd |-> d.fwd, vendor |-> d.m.vendor,
     writes |-> d.m.writes, cfg |-> d.m.cfg, out_panel |-> d.m.out_panel,
     out_io |-> d.m.out_io, ti |-> d.m.ti,
     in_read |-> in.rets["esp_lcd_touch_read_data"],
     in_cnt |-> in.cnt, in_rx |-> in.rx, in_ry |-> in.ry,
     in_failed |-> {fn \in VendorFns : in.rets[fn] # ESP_OK}, in_h |-> in.h,
     in_rets |-> in.rets,
     in_res |-> in.res]

\* width, height and pixel encoding of a descriptor
Geom(cfg) == <<cfg.width, cfg.height, cfg.pixel_format>>

NoTrip == [phase |-> "none", geom |-> Geom(CfgUnset), has_touch |-> FALSE]

\* history only: an init that succeeds starts (or completes) a round trip
TripAfterInit(ret, cfg) ==
    IF ret = ESP_OK
    THEN [phase |-> "inited", geom |-> Geom(cfg), has_touch |-> cfg.has_touch]
    ELSE NoTrip

\* history only: a deinit after a successful init is the middle of a round trip
TripAfterDeinit ==
    IF trip.phase = "none" THEN trip ELSE [trip EXCEPT !.phase = "deinited"]

\* history only: "never", then "session" once a touch_init returned ESP_OK,
\* then "earlier" once a deinit followed it
TouchHistAfterInit(ret) == IF ret = ESP_OK THEN "session" ELSE touchHist
TouchHistAfterDeinit == IF touchHist = "never" THEN "never" ELSE "earlier"

\* the tasks that call the Dispatcher without synchronisation (ConcSpec)
Callers == {"A", "B"}

\* a caller outside any Dispatcher operation
Idle == [op |-> "idle", cleared |-> FALSE]

\* no call was made through a NULL cell
NoFault == [op |-> "none", cleared |-> FALSE, outcome |-> "none"]

NoCallers == [pc |-> [c \in Callers |-> Idle], fault |-> NoFault]

Init ==
    /\ build \in BuildConfigs
    /\ s_current_board = NoBoard
    /\ s_panel_handle = NULL
    /\ s_panel_io_handle = NULL
    /\ s_touch_handle = NULL
    /\ lifecycle = "none"
    /\ sessionName = ""
    /\ trip = NoTrip
    /\ touchHist = "never"
    /\ last = Rec("none", NoArg, FALSE, ESP_OK, "",
                  D(ESP_OK, NoBoard, MemNow(CfgUnset, NULL, NoSample), <<>>), DefaultIn)
    /\ callers = NoCallers

\* the vendor functions a handler called
Called(d) == {d.m.vendor[i].fn : i \in 1..Len(d.m.vendor)}

\* an answer is chosen only for the vendor calls the handler makes; the touch
\* points (in.cnt, in.rx, in.ry) are what esp_lcd_touch_read_data fetched from
\* the controller, whether or not the handler then asks for the coordinates
Canonical(d, in) ==
    /\ \A fn \in VendorFns : in.rets[fn] # ESP_OK => fn \in Called(d)
    /\ in.h # DefaultIn.h =>
          in.rets["bsp_display_new"] = ESP_OK /\ in.rets["bsp_display_new_with_handles"] = ESP_OK
          /\ Called(d) \cap {"bsp_display_new", "bsp_display_new_with_handles"} # {}
    /\ in.th # DefaultIn.th =>
          in.rets["bsp_touch_new"] = ESP_OK /\ "bsp_touch_new" \in Called(d)
    /\ in.res # DefaultIn.res => "bsp_display_get_h_res" \in Called(d)
    /\ in.cnt # DefaultIn.cnt => "esp_lcd_touch_read_data" \in Called(d)

\* the statics and the cell after a handler returned d
Store(d) ==
    /\ s_current_board' = d.cur
    /\ s_panel_handle' = d.m.panel
    /\ s_panel_io_handle' = d.m.io
    /\ s_touch_handle' = d.m.touch
    /\ UNCHANGED build

\* the same when the operations run one at a time
Commit(d) == Store(d) /\ UNCHANGED callers

CallInit ==
    \E a \in SUBSET InitSlots :
    \E pre \in IF "panel_handle" \in a THEN {NULL} ELSE PreOut :
    \E rets \in IF a = {} THEN RetChoices(UsedBy(detect_board(build.markers), "init"))
                          ELSE {DefaultIn.rets} :
    \E h \in IF a = {} THEN PanelHandles ELSE {DefaultIn.h} :
    \E res \in IF a = {} /\ detect_board(build.markers) = ESP32_S3_LCD_EV_BOARD
               THEN VendorRes ELSE {DefaultIn.res} :
        LET in == [DefaultIn EXCEPT !.rets = rets, !.h = h, !.res = res]
            d == esp_bsp_sdl_init(s_current_board,
                                  MemNow(CfgUnset, pre, NoSample), a, in)
        IN  /\ Canonical(d, in)
            /\ Commit(d)
            /\ lifecycle' = "init"
            /\ sessionName' = IF s_current_board = NoBoard THEN "" ELSE sessionName
            /\ UNCHANGED <<trip, touchHist>>
            /\ last' = Rec("init", [NoArg EXCEPT !.nulls = a], FALSE, d.ret, "", d, in)

CallBacklightOn ==
    \E rets \in RetChoices(UsedBy(s_current_board, "backlight_on")) :
        LET in == [DefaultIn EXCEPT !.rets = rets]
            d == esp_bsp_sdl_backlight_on(s_current_board,
                                          MemNow(CfgUnset, NULL, NoSample), in)
        IN  /\ Canonical(d, in)
            /\ Commit(d)
            /\ UNCHANGED <<lifecycle, sessionName, trip, touchHist>>
            /\ last' = Rec("backlight_on", NoArg, FALSE, d.ret, "", d, in)

CallBacklightOff ==
    \E rets \in RetChoices(UsedBy(s_current_board, "backlight_off")) :
        LET in == [DefaultIn EXCEPT !.rets = rets]
            d == esp_bsp_sdl_backlight_off(s_current_board,
                                           MemNow(CfgUnset, NULL, NoSample), in)
        IN  /\ Canonical(d, in)
            /\ Commit(d)
            /\ UNCHANGED <<lifecycle, sessionName, trip, touchHist>>
            /\ last' = Rec("backlight_off", NoArg, FALSE, d.ret, "", d, in)

CallDisplayOnOff ==
    \E enable \in BOOLEAN :
    \E rets \in RetChoices(UsedBy(s_current_board, "display_on_off")) :
        LET in == [DefaultIn EXCEPT !.rets = rets]
            d == esp_bsp_sdl_display_on_off(s_current_board,
                                            MemNow(CfgUnset, NULL, NoSample), enable, in)
        IN  /\ Canonical(d, in)
            /\ Commit(d)
            /\ UNCHANGED <<lifecycle, sessionName, trip, touchHist>>
            /\ last' = Rec("display_on_off", [NoArg EXCEPT !.enable = enable],
                           FALSE, d.ret, "", d, in)

CallTouchInit ==
    \E rets \in RetChoices(UsedBy(s_current_board, "touch_init")) :
    \E th \in TouchHandles :
        LET in == [DefaultIn EXCEPT !.rets = rets, !.th = th]
            d == esp_bsp_sdl_touch_init(s_current_board,
                                        MemNow(CfgUnset, NULL, NoSample), in)
        IN  /\ Canonical(d, in)
            /\ Commit(d)
            /\ UNCHANGED <<lifecycle, sessionName, trip, touchHist>>
            /\ last' = Rec("touch_init", NoArg, FALSE, d.ret, "", d, in)

CallTouchRead ==
    \E tnull \in BOOLEAN :
    \E pre \in IF tnull THEN {NoSample} ELSE PreSamples :
    \E rets \in IF tnull THEN {DefaultIn.rets}
                ELSE RetChoices(UsedBy(s_current_board, "touch_read")) :
    \E cnt \in 0..1 :
    \E raw \in IF cnt = 0 THEN {<<0, 0>>} ELSE RawPoints :
        LET in == [DefaultIn EXCEPT !.rets = rets, !.cnt = cnt,
                                    !.rx = raw[1], !.ry = raw[2]]
            d == esp_bsp_sdl_touch_read(s_current_board,
                                        MemNow(CfgUnset, NULL, pre), tnull, in)
        IN  /\ Canonical(d, in)
            /\ Commit(d)
            /\ UNCHANGED <<lifecycle, sessionName, trip, touchHist>>
            /\ last' = Rec("touch_read", NoArg, tnull, d.ret, "", d, in)

CallGetBoardName ==
    LET name == esp_bsp_sdl_get_board_name(s_current_board)
        d == D(ESP_OK, s_current_board, MemNow(CfgUnset, NULL, NoSample), <<>>)
    IN  /\ Commit(d)
        /\ UNCHANGED <<lifecycle, trip, touchHist>>
        /\ sessionName' = IF s_current_board # NoBoard /\ sessionName = ""
                          THEN name ELSE sessionName
        /\ last' = Rec("get_board_name", NoArg, FALSE, ESP_OK, name, d, DefaultIn)

CallDeinit ==
    LET d == esp_bsp_sdl_deinit(s_current_board, MemNow(CfgUnset, NULL, NoSample))
    IN  /\ Commit(d)
        /\ lifecycle' = "deinit"
        /\ sessionName' = ""
        /\ UNCHANGED <<trip, touchHist>>
        /\ last' = Rec("deinit", NoArg, FALSE, d.ret, "", d, DefaultIn)

Next ==
    \/ CallInit
    \/ CallBacklightOn
    \/ CallBacklightOff
    \/ CallDisplayOnOff
    \/ CallTouchInit
    \/ CallTouchRead
    \/ CallGetBoardName
    \/ CallDeinit

Spec == Init /\ [][Next]_vars

-----------------------------------------------------------------------------
(* Second state machine: the operations of one board file called directly,
   in any order, as its caller (the Dispatcher, or an application linked with
   a standalone board file) may call them *)

\* one board file per build: a single marker, or a directly linked file
BoardBuilds ==
    {c \in BuildConfigs : Cardinality(c.markers) = 1} \cup StandaloneBuilds

BoardInitState ==
    /\ build \in BoardBuilds
    /\ s_current_board = NoBoard
    /\ s_panel_handle = NULL
    /\ s_panel_io_handle = NULL
    /\ s_touch_handle = NULL
    /\ lifecycle = "none"
    /\ sessionName = ""
    /\ trip = NoTrip
    /\ touchHist = "never"
    /\ last = Rec("none", NoArg, FALSE, ESP_OK, "",
                  D(ESP_OK, NoBoard, MemNow(CfgUnset, NULL, NoSample), <<>>), DefaultIn)
    /\ callers = NoCallers

\* a board operation returned r: no Dispatcher cell is involved
Direct(r) == D(r.ret, NoBoard, r.m, <<>>)

BoardInit ==
    \E a \in SUBSET InitSlots :
    \E pre \in IF "panel_handle" \in a THEN {NULL} ELSE PreOut :
    \E rets \in IF a = {} THEN RetChoices(UsedBy(BoardOf(build), "init"))
                          ELSE {DefaultIn.rets} :
    \E h \in IF a = {} THEN PanelHandles ELSE {DefaultIn.h} :
    \E res \in IF a = {} /\ BoardOf(build) = ESP32_S3_LCD_EV_BOARD
               THEN VendorRes ELSE {DefaultIn.res} :
        LET in == [DefaultIn EXCEPT !.rets = rets, !.h = h, !.res = res]
            d == Direct(Board_init(BoardOf(build),
                                   MemNow(CfgUnset, pre, NoSample), a, in))
        IN  /\ Canonical(d, in)
            /\ Commit(d)
            /\ lifecycle' = "init"
            /\ trip' = TripAfterInit(d.ret, d.m.cfg)
            /\ UNCHANGED <<sessionName, touchHist>>
            /\ last' = Rec("init", [NoArg EXCEPT !.nulls = a], FALSE, d.ret, "", d, in)

BoardBacklightOn ==
    \E rets \in RetChoices(UsedBy(BoardOf(build), "backlight_on")) :
        LET in == [DefaultIn EXCEPT !.rets = rets]
            d == Direct(Board_backlight_on(BoardOf(build),
                                           MemNow(CfgUnset, NULL, NoSample), in))
        IN  /\ Canonical(d, in)
            /\ Commit(d)
            /\ UNCHANGED <<lifecycle, sessionName, trip, touchHist>>
            /\ last' = Rec("backlight_on", NoArg, FALSE, d.ret, "", d, in)

BoardBacklightOff ==
    \E rets \in RetChoices(UsedBy(BoardOf(build), "backlight_off")) :
        LET in == [DefaultIn EXCEPT !.rets = rets]
            d == Direct(Board_backlight_off(BoardOf(build),
                                            MemNow(CfgUnset, NULL, NoSample), in))
        IN  /\ Canonical(d, in)
            /\ Commit(d)
            /\ UNCHANGED <<lifecycle, sessionName, trip, touchHist>>
            /\ last' = Rec("backlight_off", NoArg, FALSE, d.ret, "", d, in)

BoardDisplayOnOff ==
    \E enable \in BOOLEAN :
    \E rets \in RetChoices(UsedBy(BoardOf(build), "display_on_off")) :
        LET in == [DefaultIn EXCEPT !.rets = rets]
            d == Direct(Board_display_on_off(BoardOf(build),
                                             MemNow(CfgUnset, NULL, NoSample),
                                             enable, in))
        IN  /\ Canonical(d, in)
            /\ Commit(d)
            /\ UNCHANGED <<lifecycle, sessionName, trip, touchHist>>
            /\ last' = Rec("display_on_off", [NoArg EXCEPT !.enable = enable],
                           FALSE, d.ret, "", d, in)

BoardTouchInit ==
    \E rets \in RetChoices(UsedBy(BoardOf(build), "touch_init")) :
    \E th \in TouchHandles :
        LET in == [DefaultIn EXCEPT !.rets = rets, !.th = th]
            d == Direct(Board_touch_init(BoardOf(build),
                                         MemNow(CfgUnset, NULL, NoSample), in))
        IN  /\ Canonical(d, in)
            /\ Commit(d)
            /\ UNCHANGED <<lifecycle, sessionName, trip>>
            /\ touchHist' = TouchHistAfterInit(d.ret)
            /\ last' = Rec("touch_init", NoArg, FALSE, d.ret, "", d, in)

BoardTouchRead ==
    \E tnull \in BOOLEAN :
    \E pre \in IF tnull THEN {NoSample} ELSE PreSamples :
    \E rets \in IF tnull THEN {DefaultIn.rets}
                ELSE RetChoices(UsedBy(BoardOf(build), "touch_read")) :
    \E cnt \in 0..1 :
    \E raw \in IF cnt = 0 THEN {<<0, 0>>} ELSE RawPoints :
        LET in == [DefaultIn EXCEPT !.rets = rets, !.cnt = cnt,
                                    !.rx = raw[1], !.ry = raw[2]]
            d == Direct(Board_touch_read(BoardOf(build),
                                         MemNow(CfgUnset, NULL, pre), tnull, in))
        IN  /\ Canonical(d, in)
            /\ Commit(d)
            /\ UNCHANGED <<lifecycle, sessionName, trip, touchHist>>
            /\ last' = Rec("touch_read", NoArg, tnull, d.ret, "", d, in)

BoardDeinit ==
    LET d == Direct(Board_deinit(BoardOf(build), MemNow(CfgUnset, NULL, NoSample)))
    IN  /\ Commit(d)
        /\ lifecycle' = "deinit"
        /\ trip' = TripAfterDeinit
        /\ touchHist' = TouchHistAfterDeinit
        /\ UNCHANGED sessionName
        /\ last' = Rec("deinit", NoArg, FALSE, d.ret, "", d, DefaultIn)

BoardNext ==
    \/ BoardInit
    \/ BoardBacklightOn
    \/ BoardBacklightOff
    \/ BoardDisplayOnOff
    \/ BoardTouchInit
    \/ BoardTouchRead
    \/ BoardDeinit

BoardSpec == BoardInitState /\ [][BoardNext]_vars

-----------------------------------------------------------------------------
(* Two unsynchronised callers of the Dispatcher (esp_bsp_sdl_common.c has no
   lock): each operation is two steps, the test of s_current_board and the
   call through it, and steps of the two callers interleave. *)

\* one build per board, with touch compiled in where the board file reads it
ConcBuilds ==
    { c \in BuildConfigs :
        /\ Cardinality(c.markers) = 1
        /\ c.touchEnable = (detect_board(c.markers) \in ReadsTouchEnable)
        /\ c.capsTouch = (detect_board(c.markers) \in ReadsCapsTouch)
        /\ ~c.lcd1024 /\ ~c.rgb888 }

ConcInitState ==
    /\ build \in ConcBuilds
    /\ s_current_board = NoBoard
    /\ s_panel_handle = NULL
    /\ s_panel_io_handle = NULL
    /\ s_touch_handle = NULL
    /\ lifecycle = "none"
    /\ sessionName = ""
    /\ trip = NoTrip
    /\ touchHist = "never"
    /\ last = Rec("none", NoArg, FALSE, ESP_OK, "",
                  D(ESP_OK, NoBoard, MemNow(CfgUnset, NULL, NoSample), <<>>), DefaultIn)
    /\ callers = NoCallers

\* the operations that start with a test of the cell
CheckedOps == {"backlight_on", "backlight_off", "display_on_off", "touch_init",
               "touch_read", "get_board_name", "deinit"}

\* the Dispatcher operation op as a whole, entered with the cell holding cur
DispatcherCall(op, cur, m, enable, tnull, in) ==
    CASE op = "init" -> esp_bsp_sdl_init(cur, m, {}, in)
      [] op = "backlight_on" -> esp_bsp_sdl_backlight_on(cur, m, in)
      [] op = "backlight_off" -> esp_bsp_sdl_backlight_off(cur, m, in)
      [] op = "display_on_off" -> esp_bsp_sdl_display_on_off(cur, m, enable, in)
      [] op = "touch_init" -> esp_bsp_sdl_touch_init(cur, m, in)
      [] op = "touch_read" -> esp_bsp_sdl_touch_read(cur, m, tnull, in)
      [] op = "get_board_name" -> D(ESP_OK, cur, m, <<>>)
      [] op = "deinit" -> esp_bsp_sdl_deinit(cur, m)

\* what the caller's last lifecycle call is once op has returned
LifecycleAfter(op) == IF op \in {"init", "deinit"} THEN op ELSE lifecycle

\* caller c has written the cell: the callers that stand between their test
\* and their call learn whether the cell is now NULL
Overtake(pcs, c, nowNull) ==
    [x \in Callers |->
        IF x # c /\ pcs[x].op # "idle"
        THEN [pcs[x] EXCEPT !.cleared = nowNull]
        ELSE pcs[x]]

\* no call through NULL has stopped the program
ConcRunning == callers.fault.outcome # "panic"

\* the operation op of caller c has returned d
ConcReturn(c, op, arg, tnull, d, in) ==
    /\ Store(d)
    /\ lifecycle' = LifecycleAfter(op)
    /\ UNCHANGED <<sessionName, trip, touchHist>>
    /\ last' = Rec(op, arg, tnull, d.ret,
                   IF op = "get_board_name"
                   THEN esp_bsp_sdl_get_board_name(s_current_board) ELSE "",
                   d, in)

\* esp_bsp_sdl_init, first half: s_current_board = detect_board(); and the test
ConcInitSelect(c) ==
    /\ ConcRunning
    /\ callers.pc[c] = Idle
    /\ LET b == detect_board(build.markers)
           pcs == Overtake(callers.pc, c, b = NoBoard)
       IN  IF b = NoBoard
           THEN /\ ConcReturn(c, "init", NoArg, FALSE,
                              esp_bsp_sdl_init(s_current_board,
                                  MemNow(CfgUnset, NULL, NoSample), {}, DefaultIn),
                              DefaultIn)
                /\ callers' = [callers EXCEPT !.pc = pcs]
           ELSE /\ s_current_board' = b
                /\ callers' = [callers EXCEPT
                                 !.pc = [pcs EXCEPT ![c] = [op |-> "init",
                                                            cleared |-> FALSE]]]
                /\ UNCHANGED <<build, s_panel_handle, s_panel_io_handle,
                               s_touch_handle, lifecycle, sessionName, trip,
                               touchHist, last>>

\* the other operations, first half: if(!s_current_board) return ...;
\* (touch_read tests its argument before that)
ConcNullCheck(c) ==
    \E op \in CheckedOps :
    \E tnull \in IF op = "touch_read" THEN BOOLEAN ELSE {FALSE} :
        /\ ConcRunning
        /\ callers.pc[c] = Idle
        /\ IF tnull \/ s_current_board = NoBoard
           THEN /\ ConcReturn(c, op, NoArg, tnull,
                              DispatcherCall(op, s_current_board,
                                  MemNow(CfgUnset, NULL, NoSample), FALSE, tnull,
                                  DefaultIn),
                              DefaultIn)
                /\ UNCHANGED callers
           ELSE /\ callers' = [callers EXCEPT !.pc[c] = [op |-> op,
                                                         cleared |-> FALSE]]
                /\ UNCHANGED <<build, s_current_board, s_panel_handle,
                               s_panel_io_handle, s_touch_handle, lifecycle,
                               sessionName, trip, touchHist, last>>

\* second half: return s_current_board->op(...); with the cell read again and
\* holding a board (deinit then stores NULL in the cell)
ConcForward(c) ==
    LET op == callers.pc[c].op IN
    /\ ConcRunning
    /\ op # "idle"
    /\ s_current_board # NoBoard
    /\ \E enable \in IF op = "display_on_off" THEN BOOLEAN ELSE {FALSE} :
       \E rets \in IF op = "init"
                   THEN RetChoices(UsedBy(s_current_board, op))
                   ELSE {DefaultIn.rets} :
           LET in == [DefaultIn EXCEPT !.rets = rets]
               d == DispatcherCall(op, s_current_board,
                                   MemNow(CfgUnset, NULL, NoSample), enable, FALSE, in)
           IN  /\ Canonical(d, in)
               /\ ConcReturn(c, op, [NoArg EXCEPT !.enable = enable], FALSE, d, in)
               /\ callers' =
                    [callers EXCEPT
                       !.pc = [(IF op = "deinit"
                                THEN Overtake(callers.pc, c, TRUE)
                                ELSE callers.pc) EXCEPT ![c] = Idle]]

\* second half with the cell cleared since the test: the call goes through a
\* NULL interface pointer, which stops the program or returns anything
ConcForwardThroughNull(c) ==
    /\ ConcRunning
    /\ callers.pc[c].op # "idle"
    /\ s_current_board = NoBoard
    /\ \E outcome \in {"panic", "returned"} :
           callers' = [pc |-> [callers.pc EXCEPT ![c] = Idle],
                       fault |-> [op |-> callers.pc[c].op,
                                  cleared |-> callers.pc[c].cleared,
                                  outcome |-> outcome]]
    /\ UNCHANGED <<build, s_current_board, s_panel_handle, s_panel_io_handle,
                   s_touch_handle, lifecycle, sessionName, trip, touchHist, last>>

ConcNext ==
    \E c \in Callers :
        \/ ConcInitSelect(c)
        \/ ConcNullCheck(c)
        \/ ConcForward(c)
        \/ ConcForwardThroughNull(c)

ConcSpec == ConcInitState /\ [][ConcNext]_vars

\* every vendor call a handler made was one whose answer the caller of the
\* model chose (no answer is silently fixed)
VendorInputsCovered ==
    \A i \in 1..Len(last.vendor) :
        \/ last.vendor[i].fn \in UsedBy(BoardOf(build), last.op)
        \/ last.vendor[i].fn \in {"bsp_display_get_h_res", "bsp_display_get_v_res",
                                  "esp_lcd_touch_get_coordinates",
                                  "bsp_spiffs_unmount"}

TypeOK ==
    /\ build \in BuildConfigs \cup StandaloneBuilds
    /\ s_current_board \in Boards \cup {NoBoard}
    /\ s_panel_handle \in PanelHandles \cup {NULL}
    /\ s_panel_io_handle \in {IoOf(h) : h \in PanelHandles \cup {NULL}}
    /\ s_touch_handle \in TouchHandles \cup {NULL}
    /\ lifecycle \in {"none", "init", "deinit"}
    /\ trip.phase \in {"none", "inited", "deinited"}
    /\ touchHist \in {"never", "session", "earlier"}
    /\ callers.pc \in [Callers -> [op : CheckedOps \cup {"idle", "init"},
                                   cleared : BOOLEAN]]
    /\ callers.fault.outcome \in {"none", "panic", "returned"}

-----------------------------------------------------------------------------
(* Properties *)

Active == s_current_board # NoBoard

\* the operations the Dispatcher guards with its null check of the cell
GuardedOps == {"backlight_on", "backlight_off", "display_on_off", "touch_init",
               "touch_read"}

\* C1: while the Dispatcher is Uninitialized (no init was called yet, or the
\* last lifecycle call was deinit), backlight_on, backlight_off, display_on_off,
\* touch_init and touch_read (non-null output) return InvalidState and invoke no
\* Board Implementation operation.
C1_UninitializedIsInvalidState ==
    (/\ last.op \in GuardedOps
     /\ last.preLife \in {"none", "deinit"}
     /\ ~last.tnull)
    => /\ last.ret = ESP_ERR_INVALID_STATE
       /\ last.fwd = <<>>
       /\ last.vendor = <<>>

\* a guarded call made after deinit in a build that selects a board
C1_Witness ==
    /\ last.op = "backlight_on"
    /\ last.preLife = "deinit"
    /\ build.markers # {}
    /\ last.ret = ESP_ERR_INVALID_STATE

\* C2 (as claimed): an init from Uninitialized that returns an error leaves the
\* Dispatcher Uninitialized.
C2_FailedInitStaysUninitialized ==
    (last.op = "init" /\ last.preCur = NoBoard /\ last.ret # ESP_OK)
    => s_current_board = NoBoard

\* C3: from every state, a call to deinit leaves the Dispatcher Uninitialized,
\* whatever the Board Implementation's deinit returned.
C3_DeinitLeavesUninitialized ==
    last.op = "deinit" => s_current_board = NoBoard

\* deinit was called on an Active Dispatcher whose board held a panel
C3_Witness ==
    /\ last.op = "deinit"
    /\ last.preCur # NoBoard
    /\ last.prePanel # NULL
    /\ Len(last.fwd) = 1
    /\ s_current_board = NoBoard

C5_ActiveForwardsVerbatim ==
    (/\ last.op \in GuardedOps \cup {"init"}
     /\ last.preCur # NoBoard
     /\ ~last.tnull)
    => /\ Len(last.fwd) = 1
       /\ last.fwd[1].board = last.preCur
       /\ last.fwd[1].op = last.op
       /\ last.fwd[1].arg = [nulls |-> last.nulls, enable |-> last.enable]
       /\ last.fwd[1].ret = last.ret
       /\ last.fwd[1].out = [cfg |-> last.cfg, out_panel |-> last.out_panel,
                             out_io |-> last.out_io, ti |-> last.ti]

\* display_on_off(false) was forwarded and the vendor's error came back
C5_Witness ==
    /\ last.op = "display_on_off"
    /\ last.preCur # NoBoard
    /\ ~last.enable
    /\ last.ret = ESP_FAIL
    /\ Len(last.fwd) = 1

\* C6: get_board_name never fails: in Uninitialized (before init and after
\* deinit) it returns the sentinel "Unknown", and in Active it returns a
\* non-empty name that is the same on every call within the session.
C6_BoardNameNeverFails ==
    /\ last.op = "get_board_name" =>
          /\ last.name # ""
          /\ (last.preLife \in {"none", "deinit"} \/ last.preCur = NoBoard)
                => last.name = "Unknown"
    /\ (last.op = "get_board_name" /\ last.preCur # NoBoard /\ last.preName # "")
          => last.name = last.preName

\* the name was asked for twice in one Active session
C6_Witness ==
    /\ last.op = "get_board_name"
    /\ last.preCur # NoBoard
    /\ last.preName # ""
    /\ last.name = last.preName

\* C7: when no build-time board marker is set, init returns NotSupported,
\* invokes no Board Implementation operation, leaves the caller's descriptor
\* and handle slots unwritten, and the Dispatcher stays Uninitialized.
C7_NoMarkerNotSupported ==
    (last.op = "init" /\ build.markers = {})
    => /\ last.ret = ESP_ERR_NOT_SUPPORTED
       /\ last.fwd = <<>>
       /\ last.vendor = <<>>
       /\ last.writes = {}
       /\ s_current_board = NoBoard

\* init was called with three non-null slots in a build without a marker
C7_Witness ==
    /\ last.op = "init"
    /\ build.markers = {}
    /\ last.nulls = {}
    /\ last.out_panel # NULL

MarkerOrder == <<M5_ATOM_S3, ESP_BOX_3, M5STACK_CORE_S3, ESP32_P4_FUNCTION_EV,
                 ESP32_S3_LCD_EV_BOARD, M5STACK_TAB5>>

FirstMarked(markers) ==
    MarkerOrder[CHOOSE i \in 1..Len(MarkerOrder) :
                    /\ MarkerOrder[i] \in markers
                    /\ \A j \in 1..(i - 1) : MarkerOrder[j] \notin markers]

C9_FailedInitNullsOutputs ==
    (last.op = "init" /\ last.fwd # <<>> /\ last.ret # ESP_OK)
    => /\ "panel_handle" \notin last.nulls => last.out_panel = NULL
       /\ "panel_io_handle" \notin last.nulls => last.out_io = NULL

\* the vendor created the panel during the last call and a later step ran
PanelCreatedThenMore ==
    \E i \in 1..Len(last.vendor) :
        /\ last.vendor[i].fn \in {"bsp_display_new", "bsp_display_new_with_handles"}
        /\ i < Len(last.vendor)

\* C10 (as claimed): if a Board Implementation's init returns an error after
\* the vendor panel was created, the board's stored panel and panel-IO handles
\* are NULL on return.
C10_PartialInitLeavesNoHandle ==
    (last.op = "init" /\ last.ret # ESP_OK /\ PanelCreatedThenMore)
    => s_panel_handle = NULL /\ s_panel_io_handle = NULL

-----------------------------------------------------------------------------
(* Properties of the Board Implementations (checked on BoardSpec) *)

\* the build compiles the touch code of its board file: the board has a touch
\* controller (BSP_CAPS_TOUCH == 1 in its vendor header, where the file tests
\* it) and the touch toggle of the build is on (where the file has one)
TouchCompiled ==
    LET b == BoardOf(build) IN
    CASE b = M5STACK_CORE_S3 -> build.capsTouch
      [] b \in {ESP32_P4_FUNCTION_EV, ESP32_S3_LCD_EV_BOARD} ->
            build.capsTouch /\ build.touchEnable
      [] b = M5STACK_TAB5 -> build.touchEnable
      [] b = ESP_BOX_3_STANDALONE -> build.capsTouch
      [] b = ESP_BSP_GENERIC -> build.genTouch
      [] OTHER -> FALSE

\* C11 (as claimed): on a touch-capable board with touch enabled, touch_read
\* with a non-null output, called after a successful init and before any
\* successful touch_init, returns InvalidState.
C11_ReadBeforeTouchInitIsInvalidState ==
    (/\ last.op = "touch_read"
     /\ ~last.tnull
     /\ TouchCompiled
     /\ last.preTrip.phase = "inited"
     /\ last.preTouchHist = "never")
    => last.ret = ESP_ERR_INVALID_STATE

\* C12 (as claimed): on a touch-capable board, after touch_init returned
\* success and until the next deinit, every touch_read with a non-null output
\* returns Ok (never InvalidState), and reports pressed = false while the
\* controller reports no touch point.
C12_ReadAfterTouchInitIsOk ==
    (/\ last.op = "touch_read"
     /\ ~last.tnull
     /\ TouchCompiled
     /\ last.preTouchHist = "session")
    => /\ last.ret = ESP_OK
       /\ last.in_cnt = 0 => ~last.ti.pressed

\* the sample a board derives from the raw point (rx, ry): the Tab5 turns the
\* native portrait coordinates into landscape, the other boards pass them on
Derived(rx, ry) ==
    IF BoardOf(build) = M5STACK_TAB5
    THEN <<(ry * 1280) \div 720, 720 - ((rx * 720) \div 1280)>>
    ELSE <<rx, ry>>

\* C13 (as claimed): on a touch-capable board, after a successful touch_init,
\* when the vendor read succeeds and reports at least one touch point at raw
\* (rx, ry), touch_read returns Ok with pressed = true and x, y derived from
\* (rx, ry); when the vendor reports no touch point it returns pressed = false.
C13_ReadReportsTouchPoint ==
    (/\ last.op = "touch_read"
     /\ ~last.tnull
     /\ TouchCompiled
     /\ last.preTouchHist = "session"
     /\ "esp_lcd_touch_read_data" \in {last.vendor[i].fn : i \in 1..Len(last.vendor)}
     /\ last.in_read = ESP_OK)
    => /\ last.in_cnt > 0 =>
            /\ last.ret = ESP_OK
            /\ last.ti.pressed
            /\ <<last.ti.x, last.ti.y>> = Derived(last.in_rx, last.in_ry)
       /\ last.in_cnt = 0 => ~last.ti.pressed

\* C14: every touch_read that returns Ok has written the Touch Sample, and a
\* sample with pressed = false carries x = 0 and y = 0, whatever the caller's
\* variable held before and whatever raw position the controller holds.
C14_NotPressedIsOrigin ==
    (last.op = "touch_read" /\ ~last.tnull /\ last.ret = ESP_OK)
    => /\ "touch_info" \in last.writes
       /\ ~last.ti.pressed => (last.ti.x = 0 /\ last.ti.y = 0)

\* the controller holds a point away from the origin, the read of it failed,
\* and touch_read answered Ok with a sample that is not pressed
C14_Witness ==
    /\ last.op = "touch_read"
    /\ last.ret = ESP_OK
    /\ last.in_read # ESP_OK
    /\ last.in_cnt > 0
    /\ last.in_rx > 0
    /\ BoardOf(build) \in {ESP32_P4_FUNCTION_EV, M5STACK_TAB5}
    /\ ~last.ti.pressed
    /\ last.ti.x = 0

\* the board of the build has no touch controller: BSP_CAPS_TOUCH is 0 (in the
\* board file itself, or in the vendor header where the file reads it there);
\* the DevKit has no display and no touch at all
NoTouchHardware ==
    LET b == BoardOf(build) IN
    CASE b = M5_ATOM_S3 -> BSP_CAPS_TOUCH_m5_atom_s3 = 0
      [] b = ESP_BOX_3 -> BSP_CAPS_TOUCH_esp_box_3 = 0
      [] b = ESP_BSP_DEVKIT -> TRUE
      [] b = ESP_BSP_GENERIC -> FALSE
      [] OTHER -> ~build.capsTouch

\* the build has its touch toggle off: CONFIG_SDL_BSP_TOUCH_ENABLE, or
\* CONFIG_BSP_GENERIC_TOUCH_ENABLED for the Generic file
TouchToggleOff ==
    IF BoardOf(build) = ESP_BSP_GENERIC THEN ~build.genTouch
    ELSE ~build.touchEnable

\* C15 (as claimed): on a board without touch hardware, or in a build with the
\* touch toggle off, every touch_init made while the board is initialised
\* returns NotSupported and makes no vendor call.
C15_NoTouchIsNotSupported ==
    (/\ last.op = "touch_init"
     /\ last.preTrip.phase = "inited"
     /\ NoTouchHardware \/ TouchToggleOff)
    => (last.ret = ESP_ERR_NOT_SUPPORTED /\ last.vendor = <<>>)

\* C16 (as claimed): the deinit of every Board Implementation returns success
\* from any state and leaves the panel, panel-IO and touch handles of the
\* board at "none"; a touch handle stored by touch_init does not survive it.
C16_DeinitClearsOwnedHandles ==
    last.op = "deinit"
    => /\ last.ret = ESP_OK
       /\ s_panel_handle = NULL
       /\ s_panel_io_handle = NULL
       /\ s_touch_handle = NULL

\* C17 (as claimed): in the sequence init, deinit, init of one Board
\* Implementation where both inits succeed, the second Capability Descriptor
\* has the width, height and pixel encoding of the first.
C17_RoundTripSameGeometry ==
    (/\ last.op = "init"
     /\ last.ret = ESP_OK
     /\ last.preTrip.phase = "deinited")
    => Geom(last.cfg) = last.preTrip.geom

\* bytes of one pixel in a pixel encoding
BytesPerPixel(f) ==
    IF f = SDL_PIXELFORMAT_RGB565 THEN 2
    ELSE IF f = SDL_PIXELFORMAT_RGB888 THEN 3
    ELSE 0

\* C18: after every successful init, of every Board Implementation in every
\* build, the descriptor has width > 0, height > 0 and max_transfer_sz =
\* width * height * bytes per pixel (2 for RGB565, 3 for RGB888); a 320x240
\* RGB565 descriptor reports 153600.
C18_TransferSizeIsFrameSize ==
    (last.op = "init" /\ last.ret = ESP_OK)
    => /\ last.cfg.width > 0
       /\ last.cfg.height > 0
       /\ BytesPerPixel(last.cfg.pixel_format) > 0
       /\ last.cfg.max_transfer_sz =
             (last.cfg.width * last.cfg.height) * BytesPerPixel(last.cfg.pixel_format)
       /\ Geom(last.cfg) = <<320, 240, SDL_PIXELFORMAT_RGB565>>
             => last.cfg.max_transfer_sz = 153600

\* a successful init of the ESP-Box-3 table board produced the 320x240 RGB565
\* descriptor with 153600 bytes
C18_Witness ==
    /\ last.op = "init"
    /\ last.ret = ESP_OK
    /\ BoardOf(build) = ESP_BOX_3
    /\ Geom(last.cfg) = <<320, 240, SDL_PIXELFORMAT_RGB565>>
    /\ last.cfg.max_transfer_sz = 153600

------------------------------------------------------------------------------
(* Properties of single boards and of the Dispatcher's teardown (checked on Spec) *)

\* C19: on the ESP32-S3-LCD-EV-Board, whose backlight is fixed on by hardware,
\* every backlight_on and backlight_off made while Active returns NotSupported
\* and makes no vendor call.
C19_FixedBacklightIsNotSupported ==
    (/\ last.op \in {"backlight_on", "backlight_off"}
     /\ last.preCur = ESP32_S3_LCD_EV_BOARD)
    => (last.ret = ESP_ERR_NOT_SUPPORTED /\ last.vendor = <<>>)

\* backlight_off was called on the Active ESP32-S3-LCD-EV-Board, was forwarded
\* to the board and answered NotSupported
C19_Witness ==
    /\ last.op = "backlight_off"
    /\ last.preCur = ESP32_S3_LCD_EV_BOARD
    /\ Len(last.fwd) = 1
    /\ last.ret = ESP_ERR_NOT_SUPPORTED

\* C20 (as claimed): a Dispatcher deinit made while Uninitialized (before any
\* init, or as the second deinit in a row) fails with InvalidState.
C20_DeinitWhileUninitializedFails ==
    (last.op = "deinit" /\ last.preCur = NoBoard)
    => last.ret = ESP_ERR_INVALID_STATE

\* C21 (as claimed): while Active, the Dispatcher's get_board_name returns
\* exactly the string the get_name operation of the active Board
\* Implementation returns.
C21_BoardNameIsGetName ==
    (last.op = "get_board_name" /\ last.preCur # NoBoard)
    => last.name = Iface_get_name(last.preCur)

\* C22: a Dispatcher touch_read with a null output slot returns
\* InvalidArgument in every Dispatcher state, Uninitialized included (the
\* argument is tested before the state), and never calls into the Board
\* Implementation.
C22_NullTouchSlotIsInvalidArgument ==
    (last.op = "touch_read" /\ last.tnull)
    => /\ last.ret = ESP_ERR_INVALID_ARG
       /\ last.fwd = <<>>
       /\ last.vendor = <<>>
       /\ last.writes = {}

\* touch_read(NULL) was called while Uninitialized and answered InvalidArgument
C22_Witness ==
    /\ last.op = "touch_read"
    /\ last.tnull
    /\ last.preCur = NoBoard
    /\ last.ret = ESP_ERR_INVALID_ARG

------------------------------------------------------------------------------
(* Further properties of the Board Implementations (checked on BoardSpec) *)

\* C23: the init of every Board Implementation, called with any of its three
\* output slots null, returns InvalidArgument before any vendor call is made
\* and leaves the board's stored handles and every non-null output slot as
\* they were.
C23_NullInitSlotIsInvalidArgument ==
    (last.op = "init" /\ last.nulls # {})
    => /\ last.ret = ESP_ERR_INVALID_ARG
       /\ last.vendor = <<>>
       /\ last.writes = {}
       /\ last.cfg = CfgUnset
       /\ s_panel_handle = last.prePanel
       /\ s_panel_io_handle = IoOf(last.prePanel)
       /\ s_touch_handle = last.preTouch

\* an init with only the descriptor slot null was refused while the board
\* held a panel handle and a touch handle from earlier calls
C23_Witness ==
    /\ last.op = "init"
    /\ last.nulls = {"config"}
    /\ last.ret = ESP_ERR_INVALID_ARG
    /\ last.prePanel # NULL
    /\ last.preTouch # NULL
    /\ s_panel_handle = last.prePanel

\* C24 (as claimed): when the vendor call that reads the touch controller
\* fails during touch_read, touch_read returns that error to its caller, not
\* Ok.
C24_TouchReadFailureIsPropagated ==
    (/\ last.op = "touch_read"
     /\ "esp_lcd_touch_read_data" \in {last.vendor[i].fn : i \in 1..Len(last.vendor)}
     /\ last.in_read # ESP_OK)
    => last.ret = last.in_read

\* C25 (as claimed): the touch-availability flag of the descriptor agrees with
\* the touch operations: after a successful init, has_touch is false exactly
\* when touch_init returns NotSupported, and when has_touch is true touch_read
\* never returns NotSupported.
C25_HasTouchAgreesWithTouchOps ==
    last.preTrip.phase = "inited"
    => /\ last.op = "touch_init"
            => (~last.preTrip.has_touch <=> last.ret = ESP_ERR_NOT_SUPPORTED)
       /\ (last.op = "touch_read" /\ last.preTrip.has_touch)
            => last.ret # ESP_ERR_NOT_SUPPORTED

\* C26 (as claimed): on M5Stack Tab5, every pressed sample whose raw position
\* lies in the native portrait range (0 <= raw x < 720, 0 <= raw y < 1280)
\* is reported inside the declared geometry: 0 <= x < 1280 and 0 <= y < 720.
C26_Tab5SampleInsideGeometry ==
    (/\ last.op = "touch_read"
     /\ BoardOf(build) = M5STACK_TAB5
     /\ last.ret = ESP_OK
     /\ last.ti.pressed
     /\ last.in_rx >= 0 /\ last.in_rx < 720
     /\ last.in_ry >= 0 /\ last.in_ry < 1280)
    => /\ 0 <= last.ti.x /\ last.ti.x < 1280
       /\ 0 <= last.ti.y /\ last.ti.y < 720

\* C27: on the ESP32-P4 Function EV Board, whose DPI panel is always on,
\* display_on_off returns success for enable = true and enable = false in
\* every board state, makes no vendor call and changes none of the board's
\* stored handles.
C27_AlwaysOnPanelIsNoOp ==
    (last.op = "display_on_off" /\ BoardOf(build) = ESP32_P4_FUNCTION_EV)
    => /\ last.ret = ESP_OK
       /\ last.vendor = <<>>
       /\ s_panel_handle = last.prePanel
       /\ s_panel_io_handle = IoOf(last.prePanel)
       /\ s_touch_handle = last.preTouch

\* display_on_off(false) was answered with success on a P4 board that holds
\* no panel handle
C27_Witness ==
    /\ last.op = "display_on_off"
    /\ BoardOf(build) = ESP32_P4_FUNCTION_EV
    /\ ~last.enable
    /\ last.prePanel = NULL
    /\ last.ret = ESP_OK

\* C28: on the DevKit board without a display, init with non-null slots always
\* returns success, even when the LED, button or SPIFFS set-up fails, writes
\* "none" to both handle slots and a 240x320 RGB565 descriptor with
\* has_touch = false; backlight_on, backlight_off and display_on_off are no-op
\* successes; touch_init and touch_read return NotSupported.
C28_DevKitIsVirtualDisplay ==
    BoardOf(build) = ESP_BSP_DEVKIT
    => /\ (last.op = "init" /\ last.nulls = {})
            => /\ last.ret = ESP_OK
               /\ InitSlots \subseteq last.writes
               /\ last.out_panel = NULL
               /\ last.out_io = NULL
               /\ Geom(last.cfg) = <<240, 320, SDL_PIXELFORMAT_RGB565>>
               /\ ~last.cfg.has_touch
       /\ last.op \in {"backlight_on", "backlight_off", "display_on_off"}
            => /\ last.ret = ESP_OK
               /\ last.vendor = <<>>
               /\ s_panel_handle = last.prePanel
               /\ s_touch_handle = last.preTouch
       /\ last.op \in {"touch_init", "touch_read"}
            => last.ret = ESP_ERR_NOT_SUPPORTED

\* a DevKit init returned success although the LED, the button and the SPIFFS
\* set-up all failed
C28_Witness ==
    /\ BoardOf(build) = ESP_BSP_DEVKIT
    /\ last.op = "init"
    /\ last.ret = ESP_OK
    /\ last.in_failed = {"bsp_leds_init", "bsp_iot_button_create", "bsp_spiffs_mount"}
    /\ last.out_panel = NULL

------------------------------------------------------------------------------
(* Further properties of the Dispatcher and its boards (checked on Spec) *)

\* C29 (as claimed): on a successful init the panel and panel-IO handles
\* written to the caller's slots are the handles the Board Implementation
\* stores, they are the handles the vendor created in this init, the
\* Dispatcher passes on what the board wrote, and a later display_on_off
\* drives the stored panel handle.
C29_HandlesHandedOutAreStored ==
    /\ (last.op = "init" /\ last.ret = ESP_OK)
         => /\ last.out_panel = s_panel_handle
            /\ last.out_io = s_panel_io_handle
            /\ last.out_panel = last.in_h
            /\ last.out_io = IoOf(last.in_h)
            /\ last.fwd[1].out.out_panel = last.out_panel
            /\ last.fwd[1].out.out_io = last.out_io
    /\ last.op = "display_on_off"
         => \A i \in 1..Len(last.vendor) :
                last.vendor[i].fn = "esp_lcd_panel_disp_on_off"
                    => last.vendor[i].arg = last.prePanel

\* a second successful init created another panel than the one the board held
\* before, and handed out and stored the new one
C29_Witness ==
    /\ last.op = "init"
    /\ last.ret = ESP_OK
    /\ last.prePanel = 1
    /\ last.in_h = 2
    /\ last.out_panel = 2
    /\ s_panel_handle = 2
    /\ last.out_io = s_panel_io_handle

\* width, height and encoding the README documents for the boards whose size
\* is a constant of the build (P4: the default LCD type and encoding)
ReadmeGeometryOfFixedBoards ==
    LET b == BoardOf(build)
        g == Geom(last.cfg) IN
    /\ b = ESP_BOX_3 => g = <<320, 240, SDL_PIXELFORMAT_RGB565>>
    /\ b = M5_ATOM_S3 => g = <<128, 128, SDL_PIXELFORMAT_RGB565>>
    /\ (b = ESP32_P4_FUNCTION_EV /\ ~build.lcd1024 /\ ~build.rgb888)
          => g = <<1280, 800, SDL_PIXELFORMAT_RGB565>>
    /\ b = M5STACK_TAB5 => g = <<1280, 720, SDL_PIXELFORMAT_RGB565>>

-----------------------------------------------------------------------------
(* Lifecycle of the Dispatcher (esp_bsp_sdl_common.c) *)

\* the operations that neither select nor clear the active-board cell
CellReaders == GuardedOps \cup {"get_board_name"}

\* C32: only init and deinit change the Dispatcher's lifecycle state:
\* backlight_on, backlight_off, display_on_off, touch_init, touch_read and
\* get_board_name leave the active-board cell as they found it whatever they
\* return, and the cell is always either empty (Uninitialized) or the single
\* board the build selects (Active).
C32_OnlyInitAndDeinitChangeCell ==
    /\ last.op \in CellReaders => s_current_board = last.preCur
    /\ s_current_board \in {NoBoard, detect_board(build.markers)}

\* an Active Dispatcher forwarded a touch_init that failed and is still Active
C32_Witness ==
    /\ last.op = "touch_init"
    /\ last.preCur # NoBoard
    /\ last.ret # ESP_OK
    /\ last.fwd # <<>>
    /\ s_current_board = last.preCur

\* C33: when Dispatcher operations run one at a time, no call is ever
\* forwarded through an empty active-board cell, and every forwarded call goes
\* to the board the most recent init selected: a forward of an operation other
\* than init happens only while the last lifecycle call was an init and goes to
\* the board the cell held when the operation started; a forward of init goes
\* to the board init has just stored in the cell.
C33_SequentialForwardsAreSafe ==
    \A i \in DOMAIN last.fwd :
        /\ last.fwd[i].board # NoBoard
        /\ last.fwd[i].board = detect_board(build.markers)
        /\ last.op = "init" => last.fwd[i].board = s_current_board
        /\ last.op # "init" =>
              /\ last.preLife = "init"
              /\ last.fwd[i].board = last.preCur

\* a guarded call forwarded to the board the preceding init selected
C33_Witness ==
    /\ last.op \in GuardedOps
    /\ last.fwd # <<>>
    /\ last.preLife = "init"
    /\ last.fwd[1].board = last.preCur
    /\ last.preCur = detect_board(build.markers)

\* the vendor's panel creation was invoked during the last call
PanelCreationInvoked ==
    \E i \in 1..Len(last.vendor) :
        last.vendor[i].fn \in {"bsp_display_new", "bsp_display_new_with_handles"}

\* C34 (as claimed): in any sequence of Dispatcher operations, init called
\* again while Active included, the vendor's panel creation is never invoked
\* while the board still holds a panel handle of an earlier init.
C34_PanelCreatedOnlyWithoutLivePanel ==
    (last.op = "init" /\ PanelCreationInvoked) => last.prePanel = NULL

-----------------------------------------------------------------------------
(* Order and fatality of the steps of init *)

\* the vendor functions the last call invoked, in call order
VendorFnsInOrder == [i \in 1..Len(last.vendor) |-> last.vendor[i].fn]

\* the steps of M5 Atom S3 init in source order
AtomS3InitSteps ==
    <<"bsp_display_brightness_init", "bsp_display_new",
      "esp_lcd_panel_disp_on_off", "bsp_display_backlight_on">>

\* the last call was an init of board b with all three slots non-null
InitOf(b) == BoardOf(build) = b /\ last.op = "init" /\ last.nulls = {}

\* C35: M5 Atom S3 init performs backlight-PWM init, panel creation, display
\* enable and backlight on in this order; the first step that fails is the
\* last one executed and its error is what init returns; the output handles
\* are written only when all four steps succeeded.
C35_AtomS3InitStepsInOrder ==
    InitOf(M5_ATOM_S3) =>
        LET n == Len(last.vendor) IN
        /\ n \in 1..4
        /\ VendorFnsInOrder = SubSeq(AtomS3InitSteps, 1, n)
        /\ \A i \in 1..(n - 1) : last.in_rets[AtomS3InitSteps[i]] = ESP_OK
        /\ IF last.in_rets[AtomS3InitSteps[n]] # ESP_OK
           THEN /\ last.ret = last.in_rets[AtomS3InitSteps[n]]
                /\ "panel_handle" \notin last.writes
                /\ "panel_io_handle" \notin last.writes
           ELSE /\ n = 4
                /\ last.ret = ESP_OK
                /\ {"panel_handle", "panel_io_handle"} \subseteq last.writes

\* the display enable failed after the panel was created: init stops there
C35_Witness ==
    /\ InitOf(M5_ATOM_S3)
    /\ VendorFnsInOrder = SubSeq(AtomS3InitSteps, 1, 3)
    /\ last.in_rets["esp_lcd_panel_disp_on_off"] # ESP_OK
    /\ last.ret = last.in_rets["esp_lcd_panel_disp_on_off"]
    /\ "panel_handle" \notin last.writes

\* the steps of M5Stack CoreS3 init in source order
CoreS3InitSteps ==
    <<"bsp_i2c_init", "bsp_display_brightness_init", "bsp_display_new",
      "esp_lcd_panel_disp_on_off", "bsp_display_backlight_on">>

\* C36: M5Stack CoreS3 init initialises the I2C bus before power management
\* and both before panel creation; a failure of I2C, power management, panel
\* creation or display enable is the last step executed and its error is what
\* init returns; once the display enable succeeded, backlight-on is called and
\* init returns success and writes the handles whatever backlight-on returns.
C36_CoreS3InitStepsAndFatality ==
    InitOf(M5STACK_CORE_S3) =>
        LET n == Len(last.vendor) IN
        /\ n \in 1..5
        /\ VendorFnsInOrder = SubSeq(CoreS3InitSteps, 1, n)
        /\ \A i \in 1..(n - 1) : last.in_rets[CoreS3InitSteps[i]] = ESP_OK
        /\ IF n < 5
           THEN /\ last.in_rets[CoreS3InitSteps[n]] # ESP_OK
                /\ last.ret = last.in_rets[CoreS3InitSteps[n]]
                /\ "panel_handle" \notin last.writes
           ELSE /\ last.ret = ESP_OK
                /\ {"panel_handle", "panel_io_handle"} \subseteq last.writes

\* the final backlight-on failed and init still succeeded with the handles
C36_Witness ==
    /\ InitOf(M5STACK_CORE_S3)
    /\ Len(last.vendor) = 5
    /\ last.in_rets["bsp_display_backlight_on"] # ESP_OK
    /\ last.ret = ESP_OK
    /\ "panel_handle" \in last.writes
    /\ last.out_panel = s_panel_handle

\* the vendor function that creates the panel of board b
PanelCreationOf(b) ==
    IF b = M5STACK_TAB5 THEN "bsp_display_new_with_handles" ELSE "bsp_display_new"

\* C37: on the ESP32-P4 Function EV Board and the M5Stack Tab5, init with
\* non-null slots returns success if and only if the vendor's panel creation
\* succeeds: a failed panel creation is returned as init's error, and after a
\* successful one init returns success and writes the output handles even when
\* the backlight initialisation or the backlight-on fails.
C37_InitSucceedsIffPanelCreated ==
    \A b \in {ESP32_P4_FUNCTION_EV, M5STACK_TAB5} :
        InitOf(b) =>
            /\ PanelCreationInvoked
            /\ last.ret = ESP_OK <=> last.in_rets[PanelCreationOf(b)] = ESP_OK
            /\ last.ret = last.in_rets[PanelCreationOf(b)]
            /\ last.ret = ESP_OK =>
                  /\ {"panel_handle", "panel_io_handle"} \subseteq last.writes
                  /\ last.out_panel = s_panel_handle
                  /\ last.out_io = s_panel_io_handle

\* the backlight initialisation failed on the P4 board and init succeeded
C37_Witness ==
    /\ InitOf(ESP32_P4_FUNCTION_EV)
    /\ last.in_rets["bsp_display_brightness_init"] # ESP_OK
    /\ last.ret = ESP_OK
    /\ "panel_handle" \in last.writes

-----------------------------------------------------------------------------
(* display_on_off of the boards that test their panel handle *)

\* the board files whose display_on_off ends with return ESP_ERR_INVALID_STATE
PanelGuardedBoards ==
    {ESP_BOX_3, ESP_BOX_3_STANDALONE, M5_ATOM_S3, M5STACK_CORE_S3,
     ESP32_S3_LCD_EV_BOARD, ESP_BSP_GENERIC}

\* C38: on the ESP-Box-3, M5 Atom S3, M5Stack CoreS3, ESP32-S3-LCD-EV and
\* Generic boards, display_on_off returns InvalidState and calls nothing
\* whenever the board holds no panel handle, which is the case before the
\* board's first init, after a first init that stopped before the panel was
\* created, and after deinit; otherwise it makes one vendor call toggling the
\* stored panel and returns that call's result.
C38_DisplayOnOffNeedsPanel ==
    BoardOf(build) \in PanelGuardedBoards =>
        /\ last.op = "display_on_off" =>
              IF last.prePanel = NULL
              THEN last.ret = ESP_ERR_INVALID_STATE /\ last.vendor = <<>>
              ELSE /\ last.vendor = <<[fn |-> "esp_lcd_panel_disp_on_off",
                                       arg |-> last.prePanel]>>
                   /\ last.ret = last.in_rets["esp_lcd_panel_disp_on_off"]
        /\ lifecycle \in {"none", "deinit"} => s_panel_handle = NULL
        /\ (last.op = "init" /\ last.prePanel = NULL /\ ~PanelCreationInvoked)
              => s_panel_handle = NULL

\* display_on_off after a deinit that followed a successful init
C38_Witness ==
    /\ BoardOf(build) \in PanelGuardedBoards
    /\ last.op = "display_on_off"
    /\ last.preLife = "deinit"
    /\ last.preTrip.phase = "deinited"
    /\ last.prePanel = NULL
    /\ last.ret = ESP_ERR_INVALID_STATE

-----------------------------------------------------------------------------
(* Concurrent use of the Dispatcher *)

\* C31: the Dispatcher has no internal locking, so with two unsynchronised
\* callers a deinit that runs between another caller's test of the
\* active-board cell and its forwarded call makes that call go through a
\* cleared cell.  A caller standing between its test and its call finds the
\* cell NULL exactly when the other caller's deinit (and no later init) ran in
\* between, and every call made through NULL was made by a caller so
\* overtaken.  That such a call happens is shown by C31_Witness.
C31_DeinitBetweenTestAndCallClearsCell ==
    /\ \A c \in Callers :
          callers.pc[c].op # "idle" =>
              (callers.pc[c].cleared <=> s_current_board = NoBoard)
    /\ callers.fault # NoFault => callers.fault.cleared

\* a guarded call went through the cell a deinit had just cleared
C31_Witness ==
    /\ callers.fault.op \in GuardedOps
    /\ callers.fault.cleared
    /\ s_current_board = NoBoard
    /\ last.op = "deinit"
    /\ last.preCur # NoBoard
    /\ last.fwd # <<>>

====
